---- MODULE Spec2Model ----
(***************************************************************************)
(* Course board: the input-event pipeline of app/main.py and its edge      *)
(* sources (app/gpio_manager.py, app/arduino_manager.py), the normalizer   *)
(* (app/input_manager.py), the JSON store (app/storage.py) and the         *)
(* websocket fanout (ws_broadcast, websocket_endpoint).                    *)
(*                                                                         *)
(* Text is modelled as sequences of one-character strings, so that split,  *)
(* int(), lower() and startswith are computed as Python computes them.     *)
(* Wall-clock timestamps of log entries and events are not modelled.       *)
(***************************************************************************)
EXTENDS Integers, Sequences, FiniteSets, TLC

(***************************************************************************)
(* Bounds of the model.                                                    *)
(***************************************************************************)
\* Tracker operations (events, clear requests, admin changes) per behaviour.
MaxEvents == 3
\* Events the serial source emits per behaviour, before its last line.
MaxEmitted == 3
\* The debounce window bounce_seconds (0.05 s) in clock ticks.
BounceTicks == 2
\* The last clock tick of a behaviour of the GPIO source, and the number of
\* signals the GPIO source sees.
MaxTime == 6
MaxSignals == 4
\* In a behaviour of the fanout: the tracker takes operations until it has
\* issued this many notifications (one Down issues two), and this many
\* connections lose their peer.
MaxIssued == 1
MaxClosed == 1
\* The retention window of the audit log (1000 entries in storage.py),
\* reduced so that truncation is within reach, and the calls of log_press
\* in a behaviour of the store alone.
LogCap == 4
MaxAppended == 6
\* start() calls on one edge source, and lines the device sends.
MaxLoops == 2
MaxLines == 2
\* Keys typed in the terminal.
MaxKeys == 3
MaxNotified == 3

(***************************************************************************)
(* Values.                                                                 *)
(***************************************************************************)
\* Optional[T]: None, or Some(x).
None == <<>>
Some(x) == <<x>>
Value(o) == o[1]
Pins == 0 .. 2
CourseIds == {"c1", "c2"}
Sockets == {"ws1", "ws2", "ws3"}
Contexts == {"t1", "t2"}

\* The edge sources that own an execution context: ArduinoManager reads the
\* serial port in an asyncio task, ArduinoSerialManager in a thread.
Managers == {"arduino", "serial"}

NumInputs == 10

\* Course records as stored in courses.json (the fields the pipeline reads).
Course(id, pin) == [course_id |-> id, button_gpio_pin |-> pin]

\* Bodies of POST/PUT /api/admin/courses.
CourseCatalog == {Course("c1", 1), Course("c1", 0), Course("c2", 1), Course("c2", 2)}

\* Contents of data/courses.json when the process starts.
CoursesFiles == {<<>>, <<Course("c1", 1), Course("c2", 2)>>}

\* ArduinoConfig: the inputs of the course buttons and of the clear button.
ArduinoConfig(course_inputs, clear_input) ==
    [course_inputs |-> course_inputs, clear_input |-> clear_input]

\* Contents of data/arduino_config.json when the process starts.
ArduinoConfigFiles == {None, Some(ArduinoConfig(<<1, 3>>, Some(0)))}

\* Contents of data/gpio_map.json when the process starts (None: no file).
GpioMapFiles == {None, Some([course_pins |-> <<1, 2>>, clear_pin |-> 2]),
                 Some([course_pins |-> <<2, 1>>, clear_pin |-> 0])}

VARIABLES
    \* app/main.py module globals
    pressed_pins, history_course_ids, course_by_pin, clear_pin, course_pins,
    input_manager, ws_clients,
    \* the environment: INPUT_BACKEND, and whether gpiozero can be imported
    backend, gpiozero,
    \* files of app/storage.py
    courses_file, gpio_map_file, arduino_config_file, presses_log,
    \* app/input_manager.py
    arduino_to_gpio_map,
    \* app/arduino_manager.py
    arduino_running, button_states, read_loop,
    \* app/gpio_manager.py
    buttons, last_down, now,
    \* the event loop: tasks made by asyncio.create_task and not yet started,
    \* coroutines waiting for ws_lock (FIFO), the holder of ws_lock
    tasks, lock_waiters, ws_lock,
    \* websocket connections: the endpoint's position, what each connection
    \* was sent, and the connections whose peer has gone
    ws_pc, received, ws_closed,
    \* history variables: the operations the tracker processed, the
    \* notifications it issued, what the last step did, the events each
    \* edge source handed to its callback and the signals the GPIO source saw
    trace, issued, last, emitted, gpio_emitted, gpio_signals,
    \* history variables: what each connection had received when a broadcast
    \* removed it from ws_clients, and the broadcasts that have ended
    evicted, finished,
    \* history variable: every entry log_press was given, in order
    appended,
    \* the threads that are inside on_input_event: where each one is, its
    \* event, and the list its log_press read from presses.log
    contexts,
    \* edge sources that own an execution context: _running, the connection
    \* the source holds (0: none), the connections it opened, its read loops
    running, connection, connections, loops,
    \* history variables: the lines a read loop took from its connection, and
    \* the read loops that were alive when stop() was called
    lines, owed,
    \* history variable: the read loops whose last readline() raised and that
    \* have not slept since
    failed,
    \* app/keyboard_manager.py: the arguments the keyboard source was made
    \* with (None: not yet), the KeyboardManager object (None: there is none), and as history
    \* variables whether KeyboardManager(...).start() was called, the keys
    \* typed in the terminal and the events handed to on_event
    keyboard_args, keyboard, keyboard_called, typed, key_emitted

vars == <<pressed_pins, history_course_ids, course_by_pin, clear_pin, course_pins,
          input_manager, ws_clients,
          courses_file, gpio_map_file, arduino_config_file, presses_log,
          backend, gpiozero, arduino_to_gpio_map, arduino_running, button_states, read_loop,
          buttons, last_down, now, tasks, lock_waiters, ws_lock,
          ws_pc, received, ws_closed,
          trace, issued, last, emitted, gpio_emitted, gpio_signals, evicted, finished, appended, contexts,
          running, connection, connections, loops, lines, owed, failed,
          keyboard_args, keyboard, keyboard_called, typed, key_emitted>>

mainVars == <<pressed_pins, history_course_ids, course_by_pin, clear_pin, course_pins,
              input_manager>>
fileVars == <<courses_file, gpio_map_file, arduino_config_file>>
envVars == <<backend, gpiozero>>
logVars == <<appended>>
threadVars == <<contexts>>
lifeVars == <<running, connection, connections, loops, lines, owed>>
retryVars == <<failed>>
keyVars == <<keyboard_args, keyboard, keyboard_called, typed, key_emitted>>
serialVars == <<arduino_running, button_states, read_loop, emitted>>
gpioVars == <<buttons, last_down, now, gpio_emitted, gpio_signals>>
wsVars == <<ws_clients, ws_lock, ws_pc, received, ws_closed, evicted, finished>>

(***************************************************************************)
(* Python helpers.                                                         *)
(***************************************************************************)
Range(s) == {s[i] : i \in 1 .. Len(s)}

Min(S) == CHOOSE x \in S : \A y \in S : x <= y

\* sorted(list(S)) for a set of integers.
RECURSIVE sorted(_)
sorted(S) == IF S = {} THEN <<>> ELSE <<Min(S)>> \o sorted(S \ {Min(S)})

\* d.get(k, default) for a dict d.
Get(d, k, default) == IF k \in DOMAIN d THEN d[k] ELSE default

\* d[k] = v for a dict d.
Put(d, k, v) == [x \in DOMAIN d \cup {k} |-> IF x = k THEN v ELSE d[x]]

EmptyDict == [x \in {} |-> None]

\* str methods, on sequences of one-character strings.
Upper == <<"A", "B", "C", "D", "E", "F", "G", "H", "I", "J", "K", "L", "M",
           "N", "O", "P", "Q", "R", "S", "T", "U", "V", "W", "X", "Y", "Z">>
Lower == <<"a", "b", "c", "d", "e", "f", "g", "h", "i", "j", "k", "l", "m",
           "n", "o", "p", "q", "r", "s", "t", "u", "v", "w", "x", "y", "z">>
Digits == <<"0", "1", "2", "3", "4", "5", "6", "7", "8", "9">>
Whitespace == {" ", "\t", "\n", "\r"}

startswith(text, prefix) ==
    Len(text) >= Len(prefix) /\ SubSeq(text, 1, Len(prefix)) = prefix

lower(text) ==
    [i \in 1 .. Len(text) |->
        IF \E k \in 1 .. 26 : Upper[k] = text[i]
        THEN Lower[CHOOSE k \in 1 .. 26 : Upper[k] = text[i]]
        ELSE text[i]]

RECURSIVE lstrip(_)
lstrip(text) ==
    IF text # <<>> /\ text[1] \in Whitespace THEN lstrip(Tail(text)) ELSE text

RECURSIVE rstrip(_)
rstrip(text) ==
    IF text # <<>> /\ text[Len(text)] \in Whitespace
    THEN rstrip(SubSeq(text, 1, Len(text) - 1)) ELSE text

strip(text) == rstrip(lstrip(text))

\* text.split(sep) for a one-character sep: the fields, empty ones included.
RECURSIVE split(_, _)
split(text, sep) ==
    IF \A i \in 1 .. Len(text) : text[i] # sep THEN <<text>>
    ELSE LET k == Min({i \in 1 .. Len(text) : text[i] = sep})
         IN  <<SubSeq(text, 1, k - 1)>> \o split(SubSeq(text, k + 1, Len(text)), sep)

DigitValue(c) == (CHOOSE k \in 1 .. 10 : Digits[k] = c) - 1

RECURSIVE DigitsValue(_)
DigitsValue(text) ==
    IF text = <<>> THEN 0
    ELSE 10 * DigitsValue(SubSeq(text, 1, Len(text) - 1)) + DigitValue(text[Len(text)])

\* int(text): None for ValueError.  Surrounding whitespace and one sign are
\* accepted; digit-group underscores are not modelled.
int(text) ==
    LET t == strip(text)
        signed == t # <<>> /\ t[1] \in {"+", "-"}
        digits == IF signed THEN Tail(t) ELSE t
    IN  IF digits = <<>> \/ \E i \in 1 .. Len(digits) : digits[i] \notin Range(Digits)
        THEN None
        ELSE Some(IF signed /\ t[1] = "-" THEN 0 - DigitsValue(digits)
                  ELSE DigitsValue(digits))

(***************************************************************************)
(* app/storage.py                                                          *)
(***************************************************************************)
\* GPIOMap(course_pins=[], clear_pin=0), returned when the file is missing.
DefaultGpioMap == [course_pins |-> <<>>, clear_pin |-> 0]

load_gpio_map(file) == IF file = None THEN DefaultGpioMap ELSE Value(file)

\* The dict built by the loop of get_courses_by_pin over the first n courses:
\* a later course of the list takes the pin of an earlier one.
RECURSIVE courses_by_pin_upto(_, _)
courses_by_pin_upto(courses, n) ==
    IF n = 0 THEN EmptyDict
    ELSE Put(courses_by_pin_upto(courses, n - 1),
             courses[n].button_gpio_pin, courses[n])

get_courses_by_pin(courses) == courses_by_pin_upto(courses, Len(courses))

upsert_course(courses, course) ==
    LET found == {i \in 1 .. Len(courses) : courses[i].course_id = course.course_id}
    IN  IF found # {}
        THEN [courses EXCEPT ![Min(found)] = course]
        ELSE Append(courses, course)

\* The list delete_course writes back.
delete_course(courses, course_id) ==
    SelectSeq(courses, LAMBDA c : c.course_id # course_id)

LogEntry(pin, course_id, event_type) ==
    [pin |-> pin, course_id |-> course_id, event_type |-> event_type]

\* log_press that keeps the first entries when the list is over the cap.
log_press_keeps_oldest(log, pin, course_id, event_type) ==
    LET log_entries == Append(log, LogEntry(pin, course_id, event_type))
    IN  IF Len(log_entries) > LogCap
        THEN SubSeq(log_entries, 1, LogCap)
        ELSE log_entries

\* The new content of presses.log (absent file: the empty list).
log_press(log, pin, course_id, event_type) ==
    LET log_entries == Append(log, LogEntry(pin, course_id, event_type))
    IN  IF Len(log_entries) > LogCap
        THEN SubSeq(log_entries, Len(log_entries) - LogCap + 1, Len(log_entries))
        ELSE log_entries

(***************************************************************************)
(* app/main.py: the press-state tracker.                                   *)
(*                                                                         *)
(* A handler that runs without suspending is one step.  It is computed on  *)
(* a record m of what it may change: pressed_pins, history_course_ids,     *)
(* presses_log, tasks (asyncio.create_task), and the history variables     *)
(* issued and trace.                                                       *)
(***************************************************************************)
\* The messages of ws_broadcast, with every field present in every message.
Message(type, pins, history, course) ==
    [type |-> type, pressed_pins |-> pins, history_course_ids |-> history,
     course |-> course]
HistoryCleared == Message("history_cleared", <<>>, <<>>, None)
CoursesUpdated == Message("courses_updated", <<>>, <<>>, None)
CourseAdded(course) == Message("course_added", <<>>, <<>>, Some(course))
PressedUpdate(pressed) == Message("pressed_update", sorted(pressed), <<>>, None)
Hello == Message("hello", <<>>, <<>>, None)

\* _state_payload(): the pressed pins and the history (the course list, the
\* clear pin and the backend info of the payload are left out).
_state_payload == Message("state", sorted(pressed_pins), history_course_ids, None)

InputEvent(pin, kind, source) == [pin |-> pin, kind |-> kind, source |-> source]

\* A thread inside on_input_event, and a thread outside it.
Context(pc, event, log_entries) == [pc |-> pc, event |-> event, log_entries |-> log_entries]
Idle == Context("idle", InputEvent(-1, "", ""), <<>>)

\* One processed operation, for the history variable trace: op is "event",
\* "clear" (POST /api/clear) or "admin"; course is the course id that
\* course_by_pin gave the event's pin when the event was processed.
TraceEntry(op, pin, kind, source, course) ==
    [op |-> op, pin |-> pin, kind |-> kind, source |-> source, course |-> course]

Tracker == [pressed_pins |-> pressed_pins, history_course_ids |-> history_course_ids,
            presses_log |-> presses_log, tasks |-> tasks, issued |-> issued,
            trace |-> trace]

\* create_task whose task runs before the tasks that wait to start.
create_task_runs_first(m, message) ==
    [m EXCEPT !.tasks = <<message>> \o @, !.issued = Append(@, message)]

\* asyncio.create_task(ws_broadcast(message))
create_task(m, message) ==
    [m EXCEPT !.tasks = Append(@, message), !.issued = Append(@, message)]

\* _course_for_pin that falls back to the course of the lowest pin.
_course_for_pin_fallback(pin) ==
    IF pin \in DOMAIN course_by_pin THEN Some(course_by_pin[pin])
    ELSE IF DOMAIN course_by_pin # {} THEN Some(course_by_pin[Min(DOMAIN course_by_pin)])
    ELSE None

_course_for_pin(pin) ==
    IF pin \in DOMAIN course_by_pin THEN Some(course_by_pin[pin]) ELSE None

_reset_history(m) == [m EXCEPT !.history_course_ids = <<>>]

\* The branch of on_input_event for a Down on the clear pin.
clear_down(m, event) ==
    LET logged == [m EXCEPT !.presses_log =
                       log_press(@, event.pin, None, "clear_down_" \o event.source)]
    IN  create_task(_reset_history(logged), HistoryCleared)

\* button_down that skips a course already at the end of the history.
button_down_skips_repeat(m, event) ==
    LET course == _course_for_pin(event.pin)
        course_id == IF course # None THEN Some(Value(course).course_id) ELSE None
        logged == [m EXCEPT !.presses_log =
                       log_press(@, event.pin, course_id, "button_down_" \o event.source)]
        h == logged.history_course_ids
    IN  IF course # None /\ (h = <<>> \/ h[Len(h)] # Value(course).course_id)
        THEN create_task([logged EXCEPT !.history_course_ids =
                                            Append(@, Value(course).course_id)],
                         CourseAdded(Value(course)))
        ELSE logged

\* The branch of on_input_event for a Down on any other pin.
button_down(m, event) ==
    LET course == _course_for_pin(event.pin)
        course_id == IF course # None THEN Some(Value(course).course_id) ELSE None
        logged == [m EXCEPT !.presses_log =
                       log_press(@, event.pin, course_id, "button_down_" \o event.source)]
    IN  IF course # None
        THEN create_task([logged EXCEPT !.history_course_ids =
                                            Append(@, Value(course).course_id)],
                         CourseAdded(Value(course)))
        ELSE logged

\* on_down with the course branch tried before the clear branch.
on_down_course_first(m, event) ==
    LET added == [m EXCEPT !.pressed_pins = @ \cup {event.pin}]
        done == IF _course_for_pin(event.pin) # None \/ clear_pin = None
                   \/ event.pin # Value(clear_pin)
                THEN button_down(added, event)
                ELSE clear_down(added, event)
    IN  create_task(done, PressedUpdate(done.pressed_pins))

\* kind == "down"
on_down(m, event) ==
    LET added == [m EXCEPT !.pressed_pins = @ \cup {event.pin}]
        done == IF clear_pin # None /\ event.pin = Value(clear_pin)
                THEN clear_down(added, event)
                ELSE button_down(added, event)
    IN  create_task(done, PressedUpdate(done.pressed_pins))

\* on_up that leaves the pin in the set.
on_up_keeps_pin(m, event) ==
    LET logged == [m EXCEPT !.presses_log =
                       log_press(@, event.pin, None, "button_up_" \o event.source)]
    IN  create_task(logged, PressedUpdate(logged.pressed_pins))

\* on_up that writes no audit entry.
on_up_not_logged(m, event) ==
    LET removed == [m EXCEPT !.pressed_pins = @ \ {event.pin}]
    IN  create_task(removed, PressedUpdate(removed.pressed_pins))

\* kind == "up"
on_up(m, event) ==
    LET removed == [m EXCEPT !.pressed_pins = @ \ {event.pin}]
        logged == [removed EXCEPT !.presses_log =
                       log_press(@, event.pin, None, "button_up_" \o event.source)]
    IN  create_task(logged, PressedUpdate(logged.pressed_pins))

on_input_event(m, event) ==
    IF event.kind = "down" THEN on_down(m, event)
    ELSE IF event.kind = "up" THEN on_up(m, event)
    ELSE m

\* The history variable trace gets the event and the course id that
\* course_by_pin holds for its pin, then the tracker processes the event.
Observe(m, event) ==
    [m EXCEPT !.trace = Append(@, TraceEntry("event", event.pin, event.kind, event.source,
         IF event.pin \in DOMAIN course_by_pin
         THEN Some(course_by_pin[event.pin].course_id) ELSE None))]

Deliver(m, event) == on_input_event(Observe(m, event), event)

\* An admin handler that leaves the cache as it was.
_reload_courses_cache_skipped(courses) == course_by_pin

\* _reload_courses_cache(): course_by_pin after it, from the courses file.
_reload_courses_cache(courses) == get_courses_by_pin(courses)

\* The tracker's variables after a handler that left them as m.
SetTracker(m) ==
    /\ pressed_pins' = m.pressed_pins
    /\ history_course_ids' = m.history_course_ids
    /\ presses_log' = m.presses_log
    /\ tasks' = m.tasks
    /\ issued' = m.issued
    /\ trace' = m.trace

(***************************************************************************)
(* app/input_manager.py                                                    *)
(***************************************************************************)
\* ArduinoConfig()
DefaultArduinoConfig == ArduinoConfig(<<>>, None)

load_arduino_config(file) == IF file = None THEN DefaultArduinoConfig ELSE Value(file)

\* The mapping after the first n rounds of the loop over course_inputs.
RECURSIVE course_mapping_upto(_, _, _, _)
course_mapping_upto(map, config, pins, n) ==
    IF n = 0 THEN map
    ELSE LET before == course_mapping_upto(map, config, pins, n - 1)
         IN  IF n - 1 < Cardinality(pins)
             THEN Put(before, config.course_inputs[n], sorted(pins)[n])
             ELSE before

\* The dict _arduino_to_gpio_map after _setup_arduino_mapping, which writes
\* into the dict it finds; "and self.clear_pin" is Python truthiness.
_setup_arduino_mapping(map, config, pins, clear) ==
    LET courses == course_mapping_upto(map, config, pins, Len(config.course_inputs))
    IN  IF config.clear_input # None /\ clear # 0
        THEN Put(courses, Value(config.clear_input), clear)
        ELSE courses

\* InputManager(...) as startup() builds it.
InputManager(pins, clear, config) ==
    [course_pins |-> pins, clear_pin |-> clear, arduino_config |-> config]

\* _on_arduino_event that passes an unmapped input on under its own number.
_on_arduino_event_passthrough(m, event) ==
    Deliver(m, InputEvent(Get(arduino_to_gpio_map, event.input_id, event.input_id),
                          event.kind, "arduino"))

\* _on_arduino_event: an event of the serial source is dropped, or goes to
\* on_event with the pin of its input.
_on_arduino_event(m, event) ==
    IF event.input_id \in DOMAIN arduino_to_gpio_map
    THEN Deliver(m, InputEvent(arduino_to_gpio_map[event.input_id], event.kind, "arduino"))
    ELSE m

(***************************************************************************)
(* app/arduino_manager.py                                                  *)
(***************************************************************************)
ArduinoEvent(input_id, kind) == [input_id |-> input_id, kind |-> kind]

\* What _parse_message did: the new button_states and the events it handed
\* to on_event, in order.
Parsed(states, events) == [button_states |-> states, events |-> events]

BTN_ == <<"B", "T", "N", ":">>
STATE_ == <<"S", "T", "A", "T", "E", ":">>
down_ == <<"d", "o", "w", "n">>
up_ == <<"u", "p">>

\* The branch for a line that starts with "BTN:".
parse_button(states, message) ==
    LET parts == split(message, ":")
    IN  IF Len(parts) = 4
        THEN LET input_id == int(parts[2])
                 kind == lower(parts[3])
             IN  IF input_id = None
                 THEN Parsed(states, <<>>)
                 ELSE IF 0 <= Value(input_id) /\ Value(input_id) < NumInputs
                         /\ kind \in {down_, up_}
                 THEN Parsed([states EXCEPT ![Value(input_id)] = (kind = down_)],
                             <<ArduinoEvent(Value(input_id),
                                            IF kind = down_ THEN "down" ELSE "up")>>)
                 ELSE Parsed(states, <<>>)
        ELSE Parsed(states, <<>>)

\* The "STATE:" loop with an event for every input that reads 1.
RECURSIVE parse_state_levels(_, _, _)
parse_state_levels(states, state_str, n) ==
    IF n = 0 THEN Parsed(states, <<>>)
    ELSE LET before == parse_state_levels(states, state_str, n - 1)
             i == n - 1
             new_state == (state_str[n] = "1")
         IN  IF i < NumInputs /\ new_state
             THEN Parsed([before.button_states EXCEPT ![i] = new_state],
                         Append(before.events, ArduinoEvent(i, "down")))
             ELSE Parsed([before.button_states EXCEPT ![i] = new_state], before.events)

\* The loop of the "STATE:" branch over the first n characters.
RECURSIVE parse_state_upto(_, _, _)
parse_state_upto(states, state_str, n) ==
    IF n = 0 THEN Parsed(states, <<>>)
    ELSE LET before == parse_state_upto(states, state_str, n - 1)
             i == n - 1
             new_state == (state_str[n] = "1")
             old_state == before.button_states[i]
         IN  IF i < NumInputs /\ new_state # old_state
             THEN Parsed([before.button_states EXCEPT ![i] = new_state],
                         Append(before.events,
                                ArduinoEvent(i, IF new_state THEN "down" ELSE "up")))
             ELSE before

\* The branch for a line that starts with "STATE:".
parse_state(states, message) ==
    LET state_str == SubSeq(message, 7, Len(message))
    IN  IF Len(state_str) = 10
        THEN parse_state_upto(states, state_str, Len(state_str))
        ELSE Parsed(states, <<>>)

_parse_message(states, message) ==
    IF startswith(message, BTN_) THEN parse_button(states, message)
    ELSE IF startswith(message, STATE_) THEN parse_state(states, message)
    ELSE Parsed(states, <<>>)

(***************************************************************************)
(* app/gpio_manager.py                                                     *)
(*                                                                         *)
(* time.monotonic() is the variable now, in ticks.  A handler is computed  *)
(* on a record g of _last_down and of the events handed to on_event.       *)
(***************************************************************************)
GPIOEvent(pin, kind, at) == [gpio_pin |-> pin, kind |-> kind, at |-> at]

Gpio == [last_down |-> last_down, gpio_emitted |-> gpio_emitted]

\* The pressed handler that records the instant of a discarded signal too.
pressed_handler_moves_instant(g, pin, t) ==
    LET last_ == Get(g.last_down, pin, 0)
    IN  IF t - last_ < BounceTicks
        THEN [g EXCEPT !.last_down = Put(@, pin, t)]
        ELSE [g EXCEPT !.last_down = Put(@, pin, t),
                       !.gpio_emitted = Append(@, GPIOEvent(pin, "down", t))]

\* The handler of _make_pressed_handler(pin), run at instant t.
pressed_handler(g, pin, t) ==
    LET last_ == Get(g.last_down, pin, 0)
    IN  IF t - last_ < BounceTicks
        THEN g
        ELSE [g EXCEPT !.last_down = Put(@, pin, t),
                       !.gpio_emitted = Append(@, GPIOEvent(pin, "down", t))]

\* The handler of _make_released_handler(pin), run at instant t.
released_handler(g, pin, t) ==
    [g EXCEPT !.gpio_emitted = Append(@, GPIOEvent(pin, "up", t))]

\* start() that makes the buttons without importing gpiozero first.
GPIOManager_start_unguarded(pins, clear) == pins \cup {clear}

\* GPIOManager.start(): the pins that have a Button with its two handlers
\* afterwards; none when "from gpiozero import Button" raises.
GPIOManager_start(pins, clear) ==
    IF gpiozero THEN pins \cup {clear} ELSE {}

(***************************************************************************)
(* Initial state: the module globals of app/main.py as written, the files  *)
(* and the environment as the deployment left them.                        *)
(***************************************************************************)
NoStep == [op |-> "none", line |-> <<>>, pin |-> -1, kind |-> "", pre |-> <<>>]

\* What a step found, for the history variable last.
Pre == [pressed_pins |-> pressed_pins, history_course_ids |-> history_course_ids,
        presses_log |-> presses_log, issued |-> issued, trace |-> trace,
        button_states |-> button_states, emitted |-> emitted]

Step(op, line, pin, kind) ==
    [op |-> op, line |-> line, pin |-> pin, kind |-> kind, pre |-> <<Pre>>]

InitWith(backends, gpiozeros, gpio_maps, course_files, config_files) ==
    /\ pressed_pins = {}
    /\ history_course_ids = <<>>
    /\ course_by_pin = EmptyDict
    /\ clear_pin = None
    /\ course_pins = {}
    /\ input_manager = None
    /\ ws_clients = {}
    /\ backend \in backends
    /\ gpiozero \in gpiozeros
    /\ courses_file \in course_files
    /\ gpio_map_file \in gpio_maps
    /\ arduino_config_file \in config_files
    /\ presses_log = <<>>
    /\ arduino_to_gpio_map = EmptyDict
    /\ arduino_running = FALSE
    /\ button_states = [i \in 0 .. NumInputs - 1 |-> FALSE]
    /\ read_loop = "none"
    /\ buttons = {}
    /\ last_down = EmptyDict
    \* time.monotonic() counts from the boot of the machine, so the process
    \* never reads an instant less than the debounce window
    /\ now = BounceTicks
    /\ tasks = <<>>
    /\ lock_waiters = <<>>
    /\ ws_lock = None
    /\ ws_pc = [ws \in Sockets |-> "new"]
    /\ received = [ws \in Sockets |-> <<>>]
    /\ ws_closed = {}
    /\ trace = <<>>
    /\ issued = <<>>
    /\ last = NoStep
    /\ emitted = <<>>
    /\ gpio_emitted = <<>>
    /\ gpio_signals = <<>>
    /\ evicted = [ws \in Sockets |-> None]
    /\ finished = <<>>
    /\ appended = <<>>
    /\ contexts = [t \in Contexts |-> Idle]
    /\ running = [m \in Managers |-> FALSE]
    /\ connection = [m \in Managers |-> 0]
    /\ connections = [m \in Managers |-> <<>>]
    /\ loops = [m \in Managers |-> <<>>]
    /\ lines = <<>>
    /\ owed = [m \in Managers |-> {}]
    /\ failed = {}
    /\ keyboard_args = None
    /\ keyboard = None
    /\ keyboard_called = FALSE
    /\ typed = <<>>
    /\ key_emitted = <<>>

(***************************************************************************)
(* Actions of app/main.py.                                                 *)
(***************************************************************************)
\* startup(): the pin map, the course cache, then InputManager.start() for
\* the configured backend.  GPIOManager.start() registers a handler per pin
\* when gpiozero imports; ArduinoManager.start() opens the port and makes
\* the read loop.
Startup ==
    /\ input_manager = None
    /\ LET gpio_map == load_gpio_map(gpio_map_file)
           pins == Range(gpio_map.course_pins)
           config == IF backend = "arduino"
                     THEN load_arduino_config(arduino_config_file)
                     ELSE DefaultArduinoConfig
       IN  /\ clear_pin' = Some(gpio_map.clear_pin)
           /\ course_pins' = pins
           /\ course_by_pin' = get_courses_by_pin(courses_file)
           /\ input_manager' = Some(InputManager(pins, gpio_map.clear_pin, config))
           /\ arduino_to_gpio_map' =
                  IF backend = "arduino"
                  THEN _setup_arduino_mapping(arduino_to_gpio_map, config, pins,
                                              gpio_map.clear_pin)
                  ELSE arduino_to_gpio_map
           /\ arduino_running' = (backend = "arduino")
           /\ read_loop' = IF backend = "arduino" THEN "reading" ELSE read_loop
           /\ buttons' = IF backend = "gpio"
                         THEN GPIOManager_start(pins, gpio_map.clear_pin) ELSE {}
    /\ last' = Step("startup", <<>>, -1, "")
    /\ UNCHANGED <<pressed_pins, history_course_ids, envVars, keyVars, retryVars, lifeVars, logVars, threadVars, fileVars, presses_log,
                   button_states, last_down, now, tasks, lock_waiters, wsVars,
                   trace, issued, emitted, gpio_emitted, gpio_signals>>

\* on_input_event(event), as InputManager calls it with its backend's tag.
InputEventStep(pin, kind) ==
    /\ input_manager # None
    /\ Len(trace) < MaxEvents
    /\ SetTracker(Deliver(Tracker, InputEvent(pin, kind, backend)))
    /\ last' = Step("event", <<>>, pin, kind)
    /\ UNCHANGED <<course_by_pin, clear_pin, course_pins, input_manager, envVars, keyVars, retryVars, lifeVars, logVars, threadVars,
                   fileVars, arduino_to_gpio_map, serialVars, gpioVars,
                   lock_waiters, wsVars>>

\* POST /api/clear: _reset_history(), then "await ws_broadcast(...)", which
\* asks for ws_lock.
ClearRequest ==
    /\ input_manager # None
    /\ Len(trace) < MaxEvents
    /\ history_course_ids' = <<>>
    /\ lock_waiters' = Append(lock_waiters, [kind |-> "broadcast", message |-> HistoryCleared, ws |-> ""])
    /\ issued' = Append(issued, HistoryCleared)
    /\ trace' = Append(trace, TraceEntry("clear", -1, "", "", None))
    /\ last' = Step("clear", <<>>, -1, "")
    /\ UNCHANGED <<pressed_pins, course_by_pin, clear_pin, course_pins, input_manager,
                   envVars, keyVars, retryVars, lifeVars, logVars, threadVars, fileVars, presses_log, arduino_to_gpio_map, serialVars,
                   gpioVars, tasks, wsVars>>

\* POST /api/admin/courses and PUT /api/admin/courses/{id}: upsert_course,
\* _reload_courses_cache(), then "await ws_broadcast(...)".
UpsertCourse(course) ==
    /\ input_manager # None
    /\ Len(trace) < MaxEvents
    /\ courses_file' = upsert_course(courses_file, course)
    /\ course_by_pin' = _reload_courses_cache(courses_file')
    /\ lock_waiters' = Append(lock_waiters, [kind |-> "broadcast", message |-> CoursesUpdated, ws |-> ""])
    /\ issued' = Append(issued, CoursesUpdated)
    /\ trace' = Append(trace, TraceEntry("admin", -1, "", "", None))
    /\ last' = Step("admin", <<>>, -1, "")
    /\ UNCHANGED <<pressed_pins, history_course_ids, clear_pin, course_pins,
                   input_manager, envVars, keyVars, retryVars, lifeVars, logVars, threadVars, gpio_map_file, arduino_config_file,
                   presses_log, arduino_to_gpio_map, serialVars, gpioVars, tasks, wsVars>>

\* DELETE /api/admin/courses/{id}: 404 and nothing else when no course has
\* the id.
DeleteCourse(course_id) ==
    /\ input_manager # None
    /\ Len(trace) < MaxEvents
    /\ delete_course(courses_file, course_id) # courses_file
    /\ courses_file' = delete_course(courses_file, course_id)
    /\ course_by_pin' = _reload_courses_cache(courses_file')
    /\ lock_waiters' = Append(lock_waiters, [kind |-> "broadcast", message |-> CoursesUpdated, ws |-> ""])
    /\ issued' = Append(issued, CoursesUpdated)
    /\ trace' = Append(trace, TraceEntry("admin", -1, "", "", None))
    /\ last' = Step("admin", <<>>, -1, "")
    /\ UNCHANGED <<pressed_pins, history_course_ids, clear_pin, course_pins,
                   input_manager, envVars, keyVars, retryVars, lifeVars, logVars, threadVars, gpio_map_file, arduino_config_file,
                   presses_log, arduino_to_gpio_map, serialVars, gpioVars, tasks, wsVars>>

(***************************************************************************)
(* The serial read loop.                                                   *)
(***************************************************************************)
\* The tracker after _on_arduino_event took the first n events in turn.
RECURSIVE on_event_upto(_, _, _)
on_event_upto(m, events, n) ==
    IF n = 0 THEN m
    ELSE _on_arduino_event(on_event_upto(m, events, n - 1), events[n])

\* Lines the device may write (raw, with the line end).
DOWN_ == <<"D", "O", "W", "N">>
UP_ == <<"U", "P">>
EndOfLine == <<"\n">>

\* str(n) for n >= 0.
RECURSIVE Decimal(_)
Decimal(n) == IF n < 10 THEN <<Digits[n + 1]>>
              ELSE Decimal(n \div 10) \o <<Digits[(n % 10) + 1]>>

\* "BTN:<index>:<direction>", the form the comments of _parse_message give.
ButtonLine(index, direction) ==
    BTN_ \o index \o <<":">> \o direction \o EndOfLine

\* "BTN:<index>:<direction>:<more>"
ButtonLine4(index, direction, more) ==
    BTN_ \o index \o <<":">> \o direction \o <<":">> \o more \o EndOfLine

\* The bitmask with a 1 for the inputs of S.
Mask(S) == [i \in 1 .. NumInputs |-> IF i - 1 \in S THEN "1" ELSE "0"]

StateLine(bits) == STATE_ \o bits \o EndOfLine

DocumentedLines == {ButtonLine(Decimal(i), d) : i \in {1, 5}, d \in {DOWN_, UP_}}

FourFieldLines ==
    {ButtonLine4(Decimal(i), d, <<"7">>) : i \in {0, 1, 5}, d \in {DOWN_, UP_}}
        \cup {ButtonLine4(<<"3">>, down_, <<"7">>)}

StateLines == {StateLine(Mask(S)) : S \in {{}, {1, 3}, {1, 5}, {0}}}

BrokenLines ==
    {ButtonLine4(<<"x">>, DOWN_, <<"7">>), ButtonLine4(Decimal(10), DOWN_, <<"7">>),
     ButtonLine4(<<"-", "1">>, UP_, <<"7">>), ButtonLine4(<<"1">>, <<"O", "N">>, <<"7">>),
     BTN_ \o <<"1">> \o EndOfLine,
     StateLine(<<"0", "1", "0">>), StateLine(Mask({1}) \o <<"1">>),
     <<"H", "E", "L", "L", "O">> \o EndOfLine, EndOfLine, <<>>}

Lines == DocumentedLines \cup FourFieldLines \cup StateLines \cup BrokenLines

\* One round of _read_loop: readline() returns, the line is decoded,
\* stripped and parsed, and every event goes through the normalizer to the
\* tracker before the loop reads again.
ReadLine(line) ==
    /\ arduino_running
    /\ read_loop = "reading"
    /\ Len(emitted) < MaxEmitted
    /\ LET parsed == IF line = <<>> THEN Parsed(button_states, <<>>)
                     ELSE _parse_message(button_states, strip(line))
       IN  /\ button_states' = parsed.button_states
           /\ emitted' = emitted \o parsed.events
           /\ SetTracker(on_event_upto(Tracker, parsed.events, Len(parsed.events)))
    /\ last' = Step("line", line, -1, "")
    /\ UNCHANGED <<course_by_pin, clear_pin, course_pins, input_manager, envVars, keyVars, retryVars, lifeVars, logVars, threadVars,
                   fileVars, arduino_to_gpio_map, arduino_running, read_loop,
                   gpioVars, lock_waiters, wsVars>>

InitSerial ==
    InitWith({"arduino"}, {TRUE},
             {Some([course_pins |-> <<1>>, clear_pin |-> 2]),
              Some([course_pins |-> <<2, 1>>, clear_pin |-> 0])},
             {<<Course("c1", 1), Course("c2", 2)>>},
             {Some(ArduinoConfig(<<1, 3>>, Some(0)))})

NextSerial ==
    \/ Startup
    \/ \E line \in Lines : ReadLine(line)

SpecSerial == InitSerial /\ [][NextSerial]_vars

(***************************************************************************)
(* The serial backend restarted with another Arduino configuration.        *)
(***************************************************************************)
\* Configurations an administrator may post.
PostedConfigs ==
    {ArduinoConfig(<<1, 3>>, Some(0)), ArduinoConfig(<<2>>, Some(5)),
     ArduinoConfig(<<4, 1>>, None)}

\* POST /api/admin/arduino-config: the configuration is saved; with the
\* serial backend the input manager is stopped, given the configuration and
\* started again: start() runs _setup_arduino_mapping on the dict the
\* manager already has and makes a new ArduinoManager.
UpdateArduinoConfig(config) ==
    /\ input_manager # None
    /\ arduino_config_file' = Some(config)
    /\ IF backend = "arduino"
       THEN /\ input_manager' = Some([Value(input_manager) EXCEPT !.arduino_config = config])
            /\ arduino_to_gpio_map' =
                   _setup_arduino_mapping(arduino_to_gpio_map, config,
                                          Value(input_manager).course_pins,
                                          Value(input_manager).clear_pin)
            /\ arduino_running' = TRUE
            /\ button_states' = [i \in 0 .. NumInputs - 1 |-> FALSE]
            /\ read_loop' = "reading"
       ELSE UNCHANGED <<input_manager, arduino_to_gpio_map, arduino_running,
                        button_states, read_loop>>
    /\ last' = Step("config", <<>>, -1, "")
    /\ UNCHANGED <<pressed_pins, history_course_ids, course_by_pin, clear_pin, course_pins,
                   envVars, keyVars, retryVars, lifeVars, logVars, threadVars,
                   courses_file, gpio_map_file, presses_log, emitted, gpioVars, tasks,
                   lock_waiters, wsVars, trace, issued>>

NextRestart ==
    \/ Startup
    \/ \E line \in FourFieldLines : ReadLine(line)
    \/ \E config \in PostedConfigs : UpdateArduinoConfig(config)

SpecRestart == InitSerial /\ [][NextRestart]_vars

(***************************************************************************)
(* The GPIO source: signals of the registered buttons as time passes.      *)
(***************************************************************************)
Signal(pin, kind, at) == [pin |-> pin, kind |-> kind, at |-> at]

Tick ==
    /\ now < MaxTime
    /\ now' = now + 1
    /\ last' = Step("tick", <<>>, -1, "")
    /\ UNCHANGED <<mainVars, ws_clients, envVars, keyVars, retryVars, lifeVars, logVars, threadVars, fileVars, presses_log,
                   arduino_to_gpio_map, serialVars, buttons, last_down, gpio_emitted,
                   gpio_signals, tasks, lock_waiters, ws_lock, ws_pc, received,
                   ws_closed, evicted, finished, trace, issued>>

\* gpiozero runs when_pressed of the button of the pin.
Pressed(pin) ==
    /\ pin \in buttons
    /\ Len(gpio_signals) < MaxSignals
    /\ LET g == pressed_handler(Gpio, pin, now)
       IN  last_down' = g.last_down /\ gpio_emitted' = g.gpio_emitted
    /\ gpio_signals' = Append(gpio_signals, Signal(pin, "pressed", now))
    /\ last' = Step("pressed", <<>>, pin, "down")
    /\ UNCHANGED <<mainVars, ws_clients, envVars, keyVars, retryVars, lifeVars, logVars, threadVars, fileVars, presses_log,
                   arduino_to_gpio_map, serialVars, buttons, now,
                   tasks, lock_waiters, ws_lock, ws_pc, received,
                   ws_closed, evicted, finished, trace, issued>>

\* gpiozero runs when_released of the button of the pin.
Released(pin) ==
    /\ pin \in buttons
    /\ Len(gpio_signals) < MaxSignals
    /\ LET g == released_handler(Gpio, pin, now)
       IN  last_down' = g.last_down /\ gpio_emitted' = g.gpio_emitted
    /\ gpio_signals' = Append(gpio_signals, Signal(pin, "released", now))
    /\ last' = Step("released", <<>>, pin, "up")
    /\ UNCHANGED <<mainVars, ws_clients, envVars, keyVars, retryVars, lifeVars, logVars, threadVars, fileVars, presses_log,
                   arduino_to_gpio_map, serialVars, buttons, now,
                   tasks, lock_waiters, ws_lock, ws_pc, received,
                   ws_closed, evicted, finished, trace, issued>>

InitGpio ==
    InitWith({"gpio"}, {TRUE}, {Some([course_pins |-> <<1>>, clear_pin |-> 2])},
             {<<Course("c1", 1)>>}, {None})

NextGpio ==
    \/ Startup
    \/ Tick
    \/ \E pin \in Pins : Pressed(pin)
    \/ \E pin \in Pins : Released(pin)

SpecGpio == InitGpio /\ [][NextGpio]_vars

(***************************************************************************)
(* app/main.py: ws_broadcast and websocket_endpoint on the event loop.     *)
(*                                                                         *)
(* A coroutine runs up to its next await in one step.  ws_lock is an       *)
(* asyncio.Lock: its waiters get it in the order they asked.  A step under *)
(* "async with ws_lock" that awaits nothing takes and frees the lock in    *)
(* one step; a broadcast holds it from its first send to its last.         *)
(***************************************************************************)
Waiter(kind, message, ws) == [kind |-> kind, message |-> message, ws |-> ws]

\* A running ws_broadcast: the sockets "for ws in ws_clients" still has to
\* visit and the list dead; order is a history field, the whole iteration.
Broadcast(message, order) ==
    [message |-> message, todo |-> order, dead |-> <<>>, order |-> order]

\* What is kept of a broadcast that has ended: the sockets it visited and
\* those whose send failed.
Finished(b) == [message |-> b.message, targets |-> Range(b.order), dead |-> Range(b.dead)]

\* The orders in which a set may be iterated.
Orders(S) ==
    {o \in [1 .. Cardinality(S) -> S] : \A i, j \in 1 .. Cardinality(S) : o[i] = o[j] => i = j}

\* What one round of the loop leaves: the broadcast and what was received.
Round(b, rcv) == [broadcast |-> b, received |-> rcv]

\* One round of the loop in which a failed send ends the loop.
send_round_stops_on_failure(b, rcv, closed) ==
    LET ws == Head(b.todo)
    IN  IF ws \in closed
        THEN Round([b EXCEPT !.todo = <<>>, !.dead = Append(@, ws)], rcv)
        ELSE Round([b EXCEPT !.todo = Tail(@)],
                   [rcv EXCEPT ![ws] = Append(@, b.message)])

\* One round of the loop of ws_broadcast: send_json to the next socket; a
\* send that raises puts the socket on the list dead.
send_round(b, rcv, closed) ==
    LET ws == Head(b.todo)
    IN  IF ws \in closed
        THEN Round([b EXCEPT !.todo = Tail(@), !.dead = Append(@, ws)], rcv)
        ELSE Round([b EXCEPT !.todo = Tail(@)],
                   [rcv EXCEPT ![ws] = Append(@, b.message)])

\* "for ws in dead: ws_clients.discard(ws)"
discard_dead(clients, dead) == clients \ Range(dead)

\* The event loop starts the oldest task: ws_broadcast asks for ws_lock.
StartTask ==
    /\ tasks # <<>>
    /\ tasks' = Tail(tasks)
    /\ lock_waiters' = Append(lock_waiters, Waiter("broadcast", Head(tasks), ""))
    /\ UNCHANGED <<mainVars, envVars, keyVars, retryVars, lifeVars, logVars, threadVars, fileVars, presses_log, arduino_to_gpio_map,
                   serialVars, gpioVars, wsVars, trace, issued, last>>

\* ws_lock goes to its first waiter: the endpoint adds or discards its
\* socket and frees the lock at once, a broadcast starts its loop.
Grant ==
    /\ ws_lock = None
    /\ lock_waiters # <<>>
    /\ lock_waiters' = Tail(lock_waiters)
    /\ LET w == Head(lock_waiters)
       IN  \/ /\ w.kind = "add"
              /\ ws_clients' = ws_clients \cup {w.ws}
              /\ ws_pc' = [ws_pc EXCEPT ![w.ws] = "joined"]
              /\ UNCHANGED ws_lock
           \/ /\ w.kind = "discard"
              /\ ws_clients' = ws_clients \ {w.ws}
              /\ ws_pc' = [ws_pc EXCEPT ![w.ws] = "gone"]
              /\ UNCHANGED ws_lock
           \/ /\ w.kind = "broadcast"
              /\ \E order \in Orders(ws_clients) :
                     ws_lock' = Some(Broadcast(w.message, order))
              /\ UNCHANGED <<ws_clients, ws_pc>>
    /\ UNCHANGED <<mainVars, envVars, keyVars, retryVars, lifeVars, logVars, threadVars, fileVars, presses_log, arduino_to_gpio_map,
                   serialVars, gpioVars, tasks, received, ws_closed, evicted, finished,
                   trace, issued, last>>

\* The broadcast that holds ws_lock sends to its next socket.
Send ==
    /\ ws_lock # None
    /\ Value(ws_lock).todo # <<>>
    /\ LET round == send_round(Value(ws_lock), received, ws_closed)
       IN  ws_lock' = Some(round.broadcast) /\ received' = round.received
    /\ UNCHANGED <<mainVars, envVars, keyVars, retryVars, lifeVars, logVars, threadVars, fileVars, presses_log, arduino_to_gpio_map,
                   serialVars, gpioVars, tasks, lock_waiters, ws_clients, ws_pc,
                   ws_closed, evicted, finished, trace, issued, last>>

\* The loop is over: the dead sockets leave ws_clients, ws_lock is freed.
Finish ==
    /\ ws_lock # None
    /\ Value(ws_lock).todo = <<>>
    /\ ws_clients' = discard_dead(ws_clients, Value(ws_lock).dead)
    /\ ws_lock' = None
    /\ evicted' = [ws \in Sockets |->
                      IF ws \in Range(Value(ws_lock).dead) /\ evicted[ws] = None
                      THEN Some(received[ws]) ELSE evicted[ws]]
    /\ finished' = Append(finished, Finished(Value(ws_lock)))
    /\ UNCHANGED <<mainVars, envVars, keyVars, retryVars, lifeVars, logVars, threadVars, fileVars, presses_log, arduino_to_gpio_map,
                   serialVars, gpioVars, tasks, lock_waiters, ws_pc, received,
                   ws_closed, trace, issued, last>>

\* Connections are named in the order in which they arrive.
Earlier(a, b) == <<a, b>> \in {<<"ws1", "ws2">>, <<"ws1", "ws3">>, <<"ws2", "ws3">>}

\* websocket_endpoint: accept(), then ask for ws_lock to add the socket.
Connect(ws) ==
    /\ input_manager # None
    /\ ws_pc[ws] = "new"
    /\ \A other \in Sockets : Earlier(other, ws) => ws_pc[other] # "new"
    /\ ws_pc' = [ws_pc EXCEPT ![ws] = "joining"]
    /\ lock_waiters' = Append(lock_waiters, Waiter("add", Hello, ws))
    /\ UNCHANGED <<mainVars, envVars, keyVars, retryVars, lifeVars, logVars, threadVars, fileVars, presses_log, arduino_to_gpio_map,
                   serialVars, gpioVars, tasks, ws_clients, ws_lock, received,
                   ws_closed, evicted, finished, trace, issued, last>>

\* websocket_endpoint after the add: send hello, send the state payload,
\* then wait for text.  A send or a receive on a closed connection raises,
\* and "finally" asks for ws_lock to discard the socket.  The "pong"
\* answers to a peer's "ping" are not modelled.
Endpoint(ws) ==
    /\ \/ /\ ws_pc[ws] \in {"joined", "hello_sent", "listening"}
          /\ ws \in ws_closed
          /\ ws_pc' = [ws_pc EXCEPT ![ws] = "leaving"]
          /\ lock_waiters' = Append(lock_waiters, Waiter("discard", Hello, ws))
          /\ UNCHANGED received
       \/ /\ ws_pc[ws] = "joined"
          /\ ws \notin ws_closed
          /\ received' = [received EXCEPT ![ws] = Append(@, Hello)]
          /\ ws_pc' = [ws_pc EXCEPT ![ws] = "hello_sent"]
          /\ UNCHANGED lock_waiters
       \/ /\ ws_pc[ws] = "hello_sent"
          /\ ws \notin ws_closed
          /\ received' = [received EXCEPT ![ws] = Append(@, _state_payload)]
          /\ ws_pc' = [ws_pc EXCEPT ![ws] = "listening"]
          /\ UNCHANGED lock_waiters
    /\ UNCHANGED <<mainVars, envVars, keyVars, retryVars, lifeVars, logVars, threadVars, fileVars, presses_log, arduino_to_gpio_map,
                   serialVars, gpioVars, tasks, ws_clients, ws_lock,
                   ws_closed, evicted, finished, trace, issued, last>>

\* The peer of a connection goes away.
Close(ws) ==
    /\ ws_pc[ws] \notin {"new", "gone"}
    /\ ws \notin ws_closed
    /\ Cardinality(ws_closed) < MaxClosed
    /\ ws_closed' = ws_closed \cup {ws}
    /\ UNCHANGED <<mainVars, envVars, keyVars, retryVars, lifeVars, logVars, threadVars, fileVars, presses_log, arduino_to_gpio_map,
                   serialVars, gpioVars, tasks, lock_waiters, ws_clients, ws_lock,
                   ws_pc, received, evicted, finished, trace, issued, last>>

InitFanout ==
    InitWith({"arduino"}, {TRUE}, {Some([course_pins |-> <<1>>, clear_pin |-> 2])},
             {<<Course("c1", 1)>>}, {None})

NextFanout ==
    \/ Startup
    \/ \E ws \in Sockets : Connect(ws)
    \/ \E ws \in Sockets : Endpoint(ws)
    \/ \E ws \in Sockets : Close(ws)
    \/ \E pin \in {1} : Len(issued) < MaxIssued /\ InputEventStep(pin, "down")
    \/ Len(issued) < MaxIssued /\ ClearRequest
    \/ StartTask
    \/ Grant
    \/ Send
    \/ Finish

SpecFanout == InitFanout /\ [][NextFanout]_vars

(***************************************************************************)
(* Several events and their notifications: the serial read loop calls      *)
(* on_input_event in the event loop, each call creates its tasks, and the  *)
(* tasks start in the order of their creation (the loop's ready queue) and *)
(* take ws_lock in the order in which they ask (asyncio.Lock).             *)
(***************************************************************************)
\* The connection that arrives.
Subscribers == {"ws1"}

InitNotify ==
    InitWith({"arduino"}, {TRUE}, {Some([course_pins |-> <<1>>, clear_pin |-> 2])},
             {<<Course("c1", 1)>>}, {None})

NextNotify ==
    \/ Startup
    \/ \E ws \in Subscribers : Connect(ws)
    \/ \E ws \in Subscribers : Endpoint(ws)
    \/ \E ws \in Subscribers : Close(ws)
    \/ \E pin \in {1, 2}, kind \in {"down", "up"} :
           Len(issued) < MaxNotified /\ InputEventStep(pin, kind)
    \/ StartTask
    \/ Grant
    \/ Send
    \/ Finish

SpecNotify == InitNotify /\ [][NextNotify]_vars

(***************************************************************************)
(* on_input_event called from threads (a gpiozero callback thread, the     *)
(* reader threads of app/arduino_serial.py and app/keyboard_manager.py).   *)
(* Nothing in on_input_event or log_press takes a lock, so a call is split *)
(* where another thread may run: after log_press has read presses.log and  *)
(* after it has written it.  The notifications are left out here:          *)
(* asyncio.create_task needs the running loop of the calling thread.       *)
(***************************************************************************)
\* A thread enters on_input_event: the pin is added to or discarded from
\* pressed_pins, and log_press reads the file.
Call(t, pin, kind) ==
    /\ input_manager # None
    /\ contexts[t].pc = "idle"
    /\ Len(trace) < MaxEvents
    /\ LET event == InputEvent(pin, kind, "gpio")
       IN  /\ pressed_pins' = on_input_event(Tracker, event).pressed_pins
           /\ trace' = Observe(Tracker, event).trace
           /\ contexts' = [contexts EXCEPT ![t] = Context("read", event, presses_log)]
    /\ last' = Step("call", <<>>, pin, kind)
    /\ UNCHANGED <<history_course_ids, course_by_pin, clear_pin, course_pins,
                   input_manager, envVars, keyVars, retryVars, lifeVars, logVars, fileVars, presses_log,
                   arduino_to_gpio_map, serialVars, gpioVars, tasks, lock_waiters,
                   wsVars, issued>>

\* log_press of the thread appends its entry to the list it read, cuts
\* the list to the cap and writes the file.
WriteLog(t) ==
    /\ contexts[t].pc = "read"
    /\ presses_log' =
           on_input_event([Tracker EXCEPT !.presses_log = contexts[t].log_entries],
                          contexts[t].event).presses_log
    /\ contexts' = [contexts EXCEPT ![t].pc = "written"]
    /\ UNCHANGED <<mainVars, envVars, keyVars, retryVars, lifeVars, logVars, fileVars, arduino_to_gpio_map,
                   serialVars, gpioVars, tasks, lock_waiters, wsVars, trace, issued,
                   last>>

\* The rest of the branch: _reset_history() or the append to the history.
Return(t) ==
    /\ contexts[t].pc = "written"
    /\ history_course_ids' = on_input_event(Tracker, contexts[t].event).history_course_ids
    /\ contexts' = [contexts EXCEPT ![t] = Idle]
    /\ UNCHANGED <<pressed_pins, course_by_pin, clear_pin, course_pins, input_manager,
                   envVars, keyVars, retryVars, lifeVars, logVars, fileVars, presses_log, arduino_to_gpio_map,
                   serialVars, gpioVars, tasks, lock_waiters, wsVars, trace, issued,
                   last>>

InitThreads ==
    InitWith({"gpio"}, {TRUE}, {Some([course_pins |-> <<1>>, clear_pin |-> 2])},
             {<<Course("c1", 1)>>}, {None})

NextThreads ==
    \/ Startup
    \/ \E t \in Contexts, pin \in {1, 2}, kind \in {"down", "up"} : Call(t, pin, kind)
    \/ \E t \in Contexts : WriteLog(t)
    \/ \E t \in Contexts : Return(t)

SpecThreads == InitThreads /\ [][NextThreads]_vars

(***************************************************************************)
(* The store alone: calls of JSONStorage.log_press one after another.      *)
(***************************************************************************)
LogPress(pin, course_id, event_type) ==
    /\ Len(appended) < MaxAppended
    /\ presses_log' = log_press(presses_log, pin, course_id, event_type)
    /\ appended' = Append(appended, LogEntry(pin, course_id, event_type))
    /\ last' = Step("log", <<>>, pin, "")
    /\ UNCHANGED <<mainVars, envVars, keyVars, retryVars, lifeVars, threadVars, fileVars, arduino_to_gpio_map,
                   serialVars, gpioVars, tasks, lock_waiters, wsVars, trace, issued>>

InitLog ==
    InitWith({"gpio"}, {TRUE}, {Some([course_pins |-> <<1>>, clear_pin |-> 2])},
             {<<Course("c1", 1)>>}, {None})

NextLog ==
    \E pin \in {1, 2} :
        \/ LogPress(pin, Some("c1"), "button_down_gpio")
        \/ LogPress(pin, None, "button_up_gpio")

SpecLog == InitLog /\ [][NextLog]_vars

(***************************************************************************)
(* start() and stop() of the edge sources that own an execution context:   *)
(* ArduinoManager (app/arduino_manager.py), whose _read_loop is a task of  *)
(* the event loop, and ArduinoSerialManager (app/arduino_serial.py), whose  *)
(* _loop is a thread.  A connection is what start() opened: the reader and *)
(* writer of the task, the Serial object of the thread.  A loop is at the  *)
(* top of its "while self._running", or inside readline() on one           *)
(* connection, or it has left the while.  Lines are well-formed lines of   *)
(* a mapped button: each one a loop takes goes to the consumer callback.   *)
(***************************************************************************)
Loop(pc, on) == [pc |-> pc, on |-> on]

\* The read loops of the source that have not left their while.
Alive(m) == {i \in 1 .. Len(loops[m]) : loops[m][i].pc # "done"}

notLifeVars == <<mainVars, envVars, keyVars, retryVars, logVars, threadVars, fileVars, presses_log,
                 arduino_to_gpio_map, serialVars, gpioVars, tasks, lock_waiters, wsVars,
                 trace, issued, last>>

\* start(): _running is set, the port is opened and a new task or thread
\* is made for the read loop, whatever the source was doing before.
Start(m) ==
    /\ Len(loops[m]) < MaxLoops
    /\ running' = [running EXCEPT ![m] = TRUE]
    /\ connections' = [connections EXCEPT ![m] = Append(@, "open")]
    /\ connection' = [connection EXCEPT ![m] = Len(connections[m]) + 1]
    /\ loops' = [loops EXCEPT ![m] = Append(@, Loop("top", 0))]
    /\ UNCHANGED <<lines, owed, notLifeVars>>

\* start() when the port cannot be opened: the exception leaves start()
\* after _running was set.
StartFails(m) ==
    /\ ~running[m]
    /\ running' = [running EXCEPT ![m] = TRUE]
    /\ UNCHANGED <<connection, connections, loops, lines, owed, notLifeVars>>

\* The connection the source holds is closed.
close(m) ==
    IF connection[m] = 0 THEN connections[m]
    ELSE [connections[m] EXCEPT ![connection[m]] = "closed"]

\* ArduinoManager.stop() is suspended in "await self._writer.wait_closed()"
\* when the writer was open: the closing transport feeds end-of-file to its
\* reader before it resolves wait_closed(), so before stop() returns the
\* event loop runs the tasks that are ready (a read loop that has not run
\* yet, a read loop whose readline() on this connection got end-of-file);
\* they find _running false and leave.  A read loop inside readline() on
\* another connection is not woken.
woken(m) ==
    IF connection[m] # 0 /\ connections[m][connection[m]] = "open"
    THEN [i \in 1 .. Len(loops[m]) |->
            IF \/ loops[m][i].pc = "top"
               \/ loops[m][i].pc = "reading" /\ loops[m][i].on = connection[m]
            THEN Loop("done", 0) ELSE loops[m][i]]
    ELSE loops[m]

\* stop(): _running is cleared and the connection the source holds is
\* closed.  ArduinoSerialManager.stop() waits for nothing.
Stop(m) ==
    /\ running' = [running EXCEPT ![m] = FALSE]
    /\ connections' = [connections EXCEPT ![m] = close(m)]
    /\ loops' = [loops EXCEPT ![m] = IF m = "arduino" THEN woken(m) ELSE @]
    /\ owed' = [owed EXCEPT ![m] = @ \cup Alive(m)]
    /\ UNCHANGED <<connection, lines, notLifeVars>>

\* The loop tests its while condition: it calls readline() on the
\* connection the source holds now, or it leaves.
Enter(m, i) ==
    /\ i \in 1 .. Len(loops[m])
    /\ loops[m][i].pc = "top"
    /\ loops' = [loops EXCEPT ![m][i] =
                    IF running[m] THEN Loop("reading", connection[m]) ELSE Loop("done", 0)]
    /\ UNCHANGED <<running, connection, connections, lines, owed, notLifeVars>>

\* readline() returns a line of the device: the loop hands its event to the
\* callback and goes back to the top of its while.  _running is not read
\* between readline() and the callback.
LineArrives(m, i) ==
    /\ i \in 1 .. Len(loops[m])
    /\ loops[m][i].pc = "reading"
    /\ connections[m][loops[m][i].on] = "open"
    /\ Len(lines) < MaxLines
    /\ lines' = Append(lines, [manager |-> m, loop |-> i, stopped |-> ~running[m]])
    /\ loops' = [loops EXCEPT ![m][i] = Loop("top", 0)]
    /\ UNCHANGED <<running, connection, connections, owed, notLifeVars>>

\* readline() ends without a line: the thread's read timed out (timeout=1)
\* or raised because the port is closed ("except Exception: pass"); the
\* task's reader is at end-of-file and returns b"" ("continue").
ReadNothing(m, i) ==
    /\ i \in 1 .. Len(loops[m])
    /\ loops[m][i].pc = "reading"
    /\ m = "serial" \/ connections[m][loops[m][i].on] = "closed"
    /\ loops' = [loops EXCEPT ![m][i] = Loop("top", 0)]
    /\ UNCHANGED <<running, connection, connections, lines, owed, notLifeVars>>

InitLifecycle ==
    InitWith({"arduino"}, {TRUE}, {Some([course_pins |-> <<1>>, clear_pin |-> 2])},
             {<<Course("c1", 1)>>}, {None})

NextLifecycle ==
    \/ \E m \in Managers : Start(m)
    \/ \E m \in Managers : StartFails(m)
    \/ \E m \in Managers : Stop(m)
    \/ \E m \in Managers : \E i \in 1 .. MaxLoops : Enter(m, i)
    \/ \E m \in Managers : \E i \in 1 .. MaxLoops : LineArrives(m, i)
    \/ \E m \in Managers : \E i \in 1 .. MaxLoops : ReadNothing(m, i)

SpecLifecycle == InitLifecycle /\ [][NextLifecycle]_vars

\* The scheduler runs every task and thread that can run; nothing obliges
\* the device to send a line, or the program to call start() or stop().
SpecLifecycleFair ==
    /\ SpecLifecycle
    /\ \A m \in Managers : \A i \in 1 .. MaxLoops :
          WF_vars(Enter(m, i)) /\ WF_vars(ReadNothing(m, i))

(***************************************************************************)
(* Read errors of the serial sources.  readline() raises (the device was   *)
(* unplugged, the read failed): ArduinoManager._read_loop logs the error   *)
(* and sleeps one second before it tests its while again;                  *)
(* ArduinoSerialManager._loop has "except Exception: pass" and tests its    *)
(* while again at once.                                                     *)
(***************************************************************************)
\* readline() of the loop raises while the source is running.
ReadFails(m, i) ==
    /\ i \in 1 .. Len(loops[m])
    /\ loops[m][i].pc = "reading"
    /\ running[m]
    /\ loops' = [loops EXCEPT ![m][i] =
                    IF m = "arduino" THEN Loop("backoff", 0) ELSE Loop("top", 0)]
    /\ failed' = failed \cup {<<m, i>>}
    /\ UNCHANGED <<running, connection, connections, lines, owed,
                   mainVars, envVars, keyVars, logVars, threadVars, fileVars, presses_log,
                   arduino_to_gpio_map, serialVars, gpioVars, tasks, lock_waiters, wsVars,
                   trace, issued, last>>

\* "await asyncio.sleep(1)" of the loop is over.
BackOff(m, i) ==
    /\ i \in 1 .. Len(loops[m])
    /\ loops[m][i].pc = "backoff"
    /\ loops' = [loops EXCEPT ![m][i] = Loop("top", 0)]
    /\ failed' = failed \ {<<m, i>>}
    /\ UNCHANGED <<running, connection, connections, lines, owed,
                   mainVars, envVars, keyVars, logVars, threadVars, fileVars, presses_log,
                   arduino_to_gpio_map, serialVars, gpioVars, tasks, lock_waiters, wsVars,
                   trace, issued, last>>

NextRetry ==
    \/ NextLifecycle
    \/ \E m \in Managers : \E i \in 1 .. MaxLoops : ReadFails(m, i)
    \/ \E m \in Managers : \E i \in 1 .. MaxLoops : BackOff(m, i)

SpecRetry == InitLifecycle /\ [][NextRetry]_vars

(***************************************************************************)
(* The GPIO source up to the tracker.  gpiozero runs when_pressed and      *)
(* when_released on the thread its pin factory chooses: a thread of the    *)
(* factory on the hardware, the thread that drives the pin with the mock   *)
(* factory (the event loop's, when a coroutine drives it).  The handler    *)
(* calls on_event, which is InputManager._on_gpio_event, which calls       *)
(* on_input_event.                                                         *)
(***************************************************************************)
Threads == {"loop", "callback"}

\* InputManager._on_gpio_event on the thread: asyncio.get_event_loop()
\* raises RuntimeError in a thread that has no event loop, before
\* self.on_event is called; on the event loop's thread the event goes to
\* on_input_event.
_on_gpio_event(m, event, thread) ==
    IF thread = "loop"
    THEN Deliver(m, InputEvent(event.gpio_pin, event.kind, "gpio"))
    ELSE m

\* The tracker after the events the handler emitted went to _on_gpio_event
\* (a handler emits one event, or none).
on_event_from(g, thread) ==
    IF Len(g.gpio_emitted) > Len(gpio_emitted)
    THEN _on_gpio_event(Tracker, g.gpio_emitted[Len(g.gpio_emitted)], thread)
    ELSE Tracker

\* gpiozero runs when_pressed of the button of the pin on the thread.
PressedOn(thread, pin) ==
    /\ pin \in buttons
    /\ Len(gpio_signals) < MaxSignals
    /\ LET g == pressed_handler(Gpio, pin, now)
       IN  /\ last_down' = g.last_down
           /\ gpio_emitted' = g.gpio_emitted
           /\ SetTracker(on_event_from(g, thread))
    /\ gpio_signals' = Append(gpio_signals, Signal(pin, "pressed", now))
    /\ last' = Step("pressed", <<>>, pin, "down")
    /\ UNCHANGED <<course_by_pin, clear_pin, course_pins, input_manager, envVars, keyVars,
                   retryVars, lifeVars, logVars, threadVars, fileVars, arduino_to_gpio_map,
                   serialVars, buttons, now, lock_waiters, wsVars>>

\* gpiozero runs when_released of the button of the pin on the thread.
ReleasedOn(thread, pin) ==
    /\ pin \in buttons
    /\ Len(gpio_signals) < MaxSignals
    /\ LET g == released_handler(Gpio, pin, now)
       IN  /\ last_down' = g.last_down
           /\ gpio_emitted' = g.gpio_emitted
           /\ SetTracker(on_event_from(g, thread))
    /\ gpio_signals' = Append(gpio_signals, Signal(pin, "released", now))
    /\ last' = Step("released", <<>>, pin, "up")
    /\ UNCHANGED <<course_by_pin, clear_pin, course_pins, input_manager, envVars, keyVars,
                   retryVars, lifeVars, logVars, threadVars, fileVars, arduino_to_gpio_map,
                   serialVars, buttons, now, lock_waiters, wsVars>>

\* GPIOManager.stop(): every button is closed and forgotten.
GpioStop ==
    /\ input_manager # None
    /\ buttons' = {}
    /\ last' = Step("stop", <<>>, -1, "")
    /\ UNCHANGED <<mainVars, envVars, keyVars, retryVars, lifeVars, logVars, threadVars, fileVars,
                   presses_log, arduino_to_gpio_map, serialVars, last_down, now,
                   gpio_emitted, gpio_signals, tasks, lock_waiters, wsVars, trace,
                   issued>>

InitGpioPipeline ==
    InitWith({"gpio"}, {TRUE, FALSE}, {Some([course_pins |-> <<1>>, clear_pin |-> 2])},
             {<<Course("c1", 1)>>}, {None})

NextGpioPipeline ==
    \/ Startup
    \/ Tick
    \/ GpioStop
    \/ \E thread \in Threads, pin \in Pins : PressedOn(thread, pin)
    \/ \E thread \in Threads, pin \in Pins : ReleasedOn(thread, pin)

SpecGpioPipeline == InitGpioPipeline /\ [][NextGpioPipeline]_vars

(***************************************************************************)
(* app/keyboard_manager.py: the keyboard source.  A key is a one-character *)
(* string; key_to_pin is a dict from keys to pins.                         *)
(***************************************************************************)
\* The keys typed in the terminal.
Keys == {"a", "A", "b", "c", "\n"}

\* KeyboardManager(key_to_pin, clear_key, on_event): the arguments.
KeyboardArgs ==
    {[key_to_pin |-> ("a" :> 1 @@ "b" :> 2), clear_key |-> <<"e", "n", "t", "e", "r">>],
     [key_to_pin |-> ("a" :> 1 @@ "B" :> 2), clear_key |-> <<"c">>]}

\* {k.lower(): v for k, v in key_to_pin.items()}
lower_keys(key_to_pin) ==
    [k \in {lower(<<x>>)[1] : x \in DOMAIN key_to_pin} |->
        key_to_pin[CHOOSE x \in DOMAIN key_to_pin : lower(<<x>>)[1] = k]]

\* The names __init__ can read: its parameters and locals, and the globals
\* of app/keyboard_manager.py.
KeyboardNames ==
    {"self", "key_to_pin", "clear_key", "on_event", "pin",
     "threading", "sys", "time", "Callable", "Dict", "GPIOEvent", "KeyboardManager"}

\* The object as lines 20-24 of __init__ leave it.
KeyboardFields(args) ==
    [key_to_pin |-> lower_keys(args.key_to_pin), clear_key |-> lower(args.clear_key)]

\* KeyboardManager.__init__: the fields are set, then "pin = clear_pin"
\* reads clear_pin; a name that is neither a local that was assigned nor a
\* global raises NameError, and the caller gets no object.
KeyboardManager_init(args) ==
    IF "clear_pin" \in KeyboardNames THEN Some(KeyboardFields(args)) ELSE None

\* One round of the while of _run with the key that sys.stdin.read(1)
\* returned: the events handed to on_event.
_run(self, key) ==
    LET k == lower(<<key>>)[1]
    IN  IF k = "\n" /\ self.clear_key = <<"e", "n", "t", "e", "r">>
        THEN <<GPIOEvent(-1, "down", 0), GPIOEvent(-1, "up", 0)>>
        ELSE IF k \in DOMAIN self.key_to_pin
        THEN <<GPIOEvent(self.key_to_pin[k], "down", 0),
               GPIOEvent(self.key_to_pin[k], "up", 0)>>
        ELSE <<>>

\* The program makes the keyboard source and starts it.
KeyboardStart(args) ==
    /\ input_manager # None
    /\ ~keyboard_called
    /\ keyboard_args' = Some(args)
    /\ keyboard' = KeyboardManager_init(args)
    /\ keyboard_called' = TRUE
    /\ UNCHANGED <<typed, key_emitted, mainVars, envVars, retryVars, lifeVars, logVars,
                   threadVars, fileVars, presses_log, arduino_to_gpio_map, serialVars,
                   gpioVars, tasks, lock_waiters, wsVars, trace, issued, last>>

\* A key is typed in the terminal; the reader thread, if there is one, takes
\* it from sys.stdin.read(1).
Key(key) ==
    /\ Len(typed) < MaxKeys
    /\ typed' = Append(typed, [key |-> key, started |-> keyboard_called])
    /\ key_emitted' = IF keyboard # None
                      THEN key_emitted \o _run(Value(keyboard), key)
                      ELSE key_emitted
    /\ UNCHANGED <<keyboard_args, keyboard, keyboard_called, mainVars, envVars, retryVars,
                   lifeVars, logVars, threadVars, fileVars, presses_log,
                   arduino_to_gpio_map, serialVars, gpioVars, tasks, lock_waiters, wsVars,
                   trace, issued, last>>

InitKeyboard ==
    InitWith({"mock"}, {TRUE}, {Some([course_pins |-> <<1, 2>>, clear_pin |-> 0])},
             {<<Course("c1", 1), Course("c2", 2)>>}, {None})

NextKeyboard ==
    \/ Startup
    \/ \E args \in KeyboardArgs : KeyboardStart(args)
    \/ \E key \in Keys : Key(key)

SpecKeyboard == InitKeyboard /\ [][NextKeyboard]_vars

(***************************************************************************)
(* The tracker under every order of events, clear requests and course      *)
(* changes.                                                                *)
(***************************************************************************)
InitTracker == InitWith({"gpio", "arduino"}, {TRUE}, GpioMapFiles, CoursesFiles, {None})

NextTracker ==
    \/ Startup
    \/ \E pin \in Pins, kind \in {"down", "up"} : InputEventStep(pin, kind)
    \/ ClearRequest
    \/ \E course \in CourseCatalog : UpsertCourse(course)
    \/ \E course_id \in CourseIds : DeleteCourse(course_id)

SpecTracker == InitTracker /\ [][NextTracker]_vars

(***************************************************************************)
(* Properties of the tracker.                                              *)
(***************************************************************************)
\* The kind of the last event of the trace on the pin ("" when none).
RECURSIVE LastKind(_, _)
LastKind(tr, pin) ==
    IF tr = <<>> THEN ""
    ELSE LET e == tr[Len(tr)]
         IN  IF e.op = "event" /\ e.pin = pin THEN e.kind
             ELSE LastKind(SubSeq(tr, 1, Len(tr) - 1), pin)

\* The history the trace calls for: a clear request or a Down on the clear
\* pin empties it, a Down on another pin that had a course appends the
\* course's id, everything else leaves it.
RECURSIVE ExpectedHistory(_, _)
ExpectedHistory(tr, clear) ==
    IF tr = <<>> THEN <<>>
    ELSE LET e == tr[Len(tr)]
             before == ExpectedHistory(SubSeq(tr, 1, Len(tr) - 1), clear)
         IN  IF e.op = "clear" THEN <<>>
             ELSE IF e.op = "event" /\ e.kind = "down" /\ e.pin = clear THEN <<>>
             ELSE IF e.op = "event" /\ e.kind = "down" /\ e.course # None
                  THEN Append(before, Value(e.course))
             ELSE before

\* The notifications the last step issued.
IssuedByLast == SubSeq(issued, Len(Value(last.pre).issued) + 1, Len(issued))

LastIsEvent == last.op = "event"
LastOnClearPin == LastIsEvent /\ last.pin = Value(clear_pin)
LastOnUnmappedPin ==
    LastIsEvent /\ last.pin # Value(clear_pin) /\ last.pin \notin DOMAIN course_by_pin

\* C1: a pin is in pressed_pins if and only if the last event processed for
\* it was a Down, whatever clear requests and course changes came between.
C1_PressedIffLastDown ==
    \A pin \in Pins : pin \in pressed_pins <=> LastKind(trace, pin) = "down"

\* C1 witness: one pin held and another released, after a Down, an Up on a
\* pin that was not held, and a clear request or course change at the end.
C1_Witness ==
    /\ Len(trace) = 3
    /\ trace[1].op = "event" /\ trace[1].kind = "down"
    /\ trace[2].op = "event" /\ trace[2].kind = "up" /\ trace[2].pin # trace[1].pin
    /\ trace[3].op \in {"clear", "admin"}
    /\ trace[1].pin \in pressed_pins /\ trace[2].pin \notin pressed_pins

\* C2: the history is the list of course ids of the Down events since the
\* last clear whose pin was not the clear pin and had a course when the
\* event was processed, in the order of processing.
C2_HistoryIsSelectionsSinceClear ==
    input_manager # None =>
        history_course_ids = ExpectedHistory(trace, Value(clear_pin))

\* C2 witness: a second Down on a held pin has added the course again.
C2_Witness ==
    /\ Len(trace) >= 2
    /\ trace[1].op = "event" /\ trace[1].kind = "down" /\ trace[1].course # None
    /\ trace[2] = trace[1]
    /\ Len(history_course_ids) >= 2
    /\ history_course_ids[1] = history_course_ids[2]

\* C3: right after a Down on the clear pin the history is empty and no
\* course_added was issued, also when a course is mapped to the clear pin.
C3_ClearDownEmptiesHistory ==
    (LastOnClearPin /\ last.kind = "down") =>
        /\ history_course_ids = <<>>
        /\ \A i \in 1 .. Len(IssuedByLast) : IssuedByLast[i].type # "course_added"
        /\ \E i \in 1 .. Len(IssuedByLast) : IssuedByLast[i] = HistoryCleared

\* C3 witness: a course selected, then two Downs in a row on the clear pin,
\* which has a course of its own.
C3_Witness ==
    /\ LastOnClearPin /\ last.kind = "down"
    /\ last.pin \in DOMAIN course_by_pin
    /\ Len(trace) = 3
    /\ trace[1].op = "event" /\ trace[1].kind = "down" /\ trace[1].course # None
    /\ trace[1].pin # last.pin
    /\ trace[2].op = "event" /\ trace[2].kind = "down" /\ trace[2].pin = last.pin
    /\ history_course_ids = <<>>

\* C4: an event on a pin that is not the clear pin and has no course changes
\* pressed_pins (Down adds the pin, Up removes it), leaves the history and
\* issues no course_added.
C4_UnmappedPinOnlyPressState ==
    LastOnUnmappedPin =>
        /\ last.kind = "down" => pressed_pins = Value(last.pre).pressed_pins \cup {last.pin}
        /\ last.kind = "up" => pressed_pins = Value(last.pre).pressed_pins \ {last.pin}
        /\ history_course_ids = Value(last.pre).history_course_ids
        /\ \A i \in 1 .. Len(IssuedByLast) : IssuedByLast[i].type # "course_added"

\* C4 witness: with a course selected and other courses known, an Up on an
\* unmapped pin follows its Down.
C4_Witness ==
    /\ LastOnUnmappedPin /\ last.kind = "up"
    /\ DOMAIN course_by_pin # {}
    /\ history_course_ids # <<>>
    /\ last.pin \in Value(last.pre).pressed_pins
    /\ last.pin \notin pressed_pins

(***************************************************************************)
(* Properties of the serial source and the normalizer.                     *)
(***************************************************************************)
LastIsLine == last.op = "line"
EmittedByLast == SubSeq(emitted, Len(Value(last.pre).emitted) + 1, Len(emitted))
CallsByLast == SubSeq(trace, Len(Value(last.pre).trace) + 1, Len(trace))

\* The kind of the last event the source emitted for the input ("" if none).
RECURSIVE LastEmittedKind(_, _)
LastEmittedKind(events, i) ==
    IF events = <<>> THEN ""
    ELSE IF events[Len(events)].input_id = i THEN events[Len(events)].kind
    ELSE LastEmittedKind(SubSeq(events, 1, Len(events) - 1), i)

\* The state of every input as the events emitted so far leave it.
KnownState(events) ==
    [i \in 0 .. NumInputs - 1 |-> LastEmittedKind(events, i) = "down"]

\* "STATE:" and ten characters 0 or 1.
WellFormedStateLine(line) ==
    /\ Len(line) = 6 + NumInputs + 1
    /\ startswith(line, STATE_)
    /\ line[Len(line)] = "\n"
    /\ \A k \in 7 .. 6 + NumInputs : line[k] \in {"0", "1"}

LineBits(line) == [i \in 0 .. NumInputs - 1 |-> line[7 + i] = "1"]

\* One event per input whose bit differs from old, in ascending order.
ExpectedEdges(old, bits) ==
    LET changed == sorted({i \in 0 .. NumInputs - 1 : bits[i] # old[i]})
    IN  [k \in 1 .. Len(changed) |->
            ArduinoEvent(changed[k], IF bits[changed[k]] THEN "down" ELSE "up")]

\* C6: a well-formed STATE line emits, in ascending order, a Down for every
\* input whose bit is 1 and whose known state was up, an Up for every input
\* whose bit is 0 and whose known state was down, nothing else, and leaves
\* the known state equal to the bitmask.
C6_BitmaskEmitsChangedInputs ==
    (LastIsLine /\ WellFormedStateLine(last.line)) =>
        /\ EmittedByLast =
               ExpectedEdges(KnownState(Value(last.pre).emitted), LineBits(last.line))
        /\ button_states = LineBits(last.line)

\* C6 witness: after a single-event line, a bitmask released one input and
\* pressed another.
C6_Witness ==
    /\ LastIsLine /\ WellFormedStateLine(last.line)
    /\ Value(last.pre).emitted # <<>>
    /\ \E j, k \in 1 .. Len(EmittedByLast) :
           j < k /\ EmittedByLast[j].kind = "up" /\ EmittedByLast[k].kind = "down"

\* "BTN:<i>:DOWN" or "BTN:<i>:UP" with i in 0..9.
DocumentedButtonLine(line, i, direction) == line = ButtonLine(Decimal(i), direction)

\* C7: a line BTN:<i>:DOWN or BTN:<i>:UP with i in 0..9 hands exactly one
\* event for input i with that direction to the callback and sets the known
\* state of input i.
C7_DocumentedButtonLineEmits ==
    LastIsLine =>
        \A i \in 0 .. NumInputs - 1 :
            /\ DocumentedButtonLine(last.line, i, DOWN_) =>
                   EmittedByLast = <<ArduinoEvent(i, "down")>> /\ button_states[i]
            /\ DocumentedButtonLine(last.line, i, UP_) =>
                   EmittedByLast = <<ArduinoEvent(i, "up")>> /\ ~button_states[i]

\* A line of one of the two grammars that breaks it: a BTN line without
\* exactly an index and a direction, or whose index is no number or not in
\* 0..9, or a STATE line whose bitmask is not ten characters long.
MalformedLine(line) ==
    LET message == strip(line)
        parts == split(message, ":")
    IN  \/ /\ startswith(message, BTN_)
           /\ \/ Len(parts) # 3
              \/ int(parts[2]) = None
              \/ Value(int(parts[2])) \notin 0 .. NumInputs - 1
        \/ /\ startswith(message, STATE_)
           /\ Len(message) # 6 + NumInputs

\* C8: a malformed line emits no event, changes neither the known input
\* states nor pressed_pins nor the history, and leaves the read loop reading.
C8_MalformedLineIsDropped ==
    (LastIsLine /\ MalformedLine(last.line)) =>
        /\ EmittedByLast = <<>>
        /\ button_states = Value(last.pre).button_states
        /\ pressed_pins = Value(last.pre).pressed_pins
        /\ history_course_ids = Value(last.pre).history_course_ids
        /\ read_loop = "reading"

\* The calls of on_input_event that the events call for: one per event with
\* a mapped input, in order.
RECURSIVE ExpectedCalls(_)
ExpectedCalls(events) ==
    IF events = <<>> THEN <<>>
    ELSE LET e == events[Len(events)]
             before == ExpectedCalls(SubSeq(events, 1, Len(events) - 1))
         IN  IF e.input_id \in DOMAIN arduino_to_gpio_map
             THEN Append(before, InputEvent(arduino_to_gpio_map[e.input_id], e.kind, "arduino"))
             ELSE before

\* C9: every event with a mapped input reaches on_input_event once, with the
\* mapped pin, its kind and the source arduino; an event with an unmapped
\* input reaches nothing, and a line with no mapped event leaves
\* pressed_pins, the history, the audit log and the issued notifications.
C9_NormalizerDropsUnmapped ==
    LastIsLine =>
        LET calls == CallsByLast
            expected == ExpectedCalls(EmittedByLast)
        IN  /\ Len(calls) = Len(expected)
            /\ \A k \in 1 .. Len(calls) :
                   /\ calls[k].op = "event"
                   /\ calls[k].pin = expected[k].pin
                   /\ calls[k].kind = expected[k].kind
                   /\ calls[k].source = expected[k].source
            /\ expected = <<>> =>
                   /\ pressed_pins = Value(last.pre).pressed_pins
                   /\ history_course_ids = Value(last.pre).history_course_ids
                   /\ presses_log = Value(last.pre).presses_log
                   /\ issued = Value(last.pre).issued

\* C9 witness: one line gave an event with a mapped input, which reached the
\* tracker, and an event with an unmapped input, which did not.
C9_Witness ==
    /\ LastIsLine
    /\ Len(EmittedByLast) = 2
    /\ Len(CallsByLast) = 1
    /\ EmittedByLast[2].input_id \notin DOMAIN arduino_to_gpio_map
    /\ CallsByLast[1].pin = arduino_to_gpio_map[EmittedByLast[1].input_id]
    /\ CallsByLast[1].pin \in pressed_pins

(***************************************************************************)
(* Properties of the GPIO source.                                          *)
(***************************************************************************)
\* The instant of the last press of the pin among the accepted ones.
RECURSIVE LastAccepted(_, _)
LastAccepted(accepted, pin) ==
    IF accepted = <<>> THEN None
    ELSE IF accepted[Len(accepted)].pin = pin THEN Some(accepted[Len(accepted)].at)
    ELSE LastAccepted(SubSeq(accepted, 1, Len(accepted) - 1), pin)

\* The pressed signals that count: the first on a pin, and every one that
\* comes at least the debounce window after the last one that counted.
RECURSIVE AcceptedPresses(_)
AcceptedPresses(signals) ==
    IF signals = <<>> THEN <<>>
    ELSE LET s == signals[Len(signals)]
             before == AcceptedPresses(SubSeq(signals, 1, Len(signals) - 1))
             prior == LastAccepted(before, s.pin)
         IN  IF s.kind = "pressed" /\ (prior = None \/ s.at - Value(prior) >= BounceTicks)
             THEN Append(before, s)
             ELSE before

OfKind(events, kind) == SelectSeq(events, LAMBDA e : e.kind = kind)

\* C5: the Down events emitted are exactly the pressed signals that come at
\* least the debounce window after the last accepted press on their pin, in
\* order; the recorded instant of a pin is that of its last accepted press,
\* so a discarded signal moves nothing, and other pins do not matter.
C5_DebounceAcceptsOutsideWindow ==
    LET downs == OfKind(gpio_emitted, "down")
        accepted == AcceptedPresses(gpio_signals)
    IN  /\ Len(downs) = Len(accepted)
        /\ \A k \in 1 .. Len(downs) :
               downs[k].gpio_pin = accepted[k].pin /\ downs[k].at = accepted[k].at
        /\ \A pin \in Pins :
               /\ pin \in DOMAIN last_down <=> LastAccepted(accepted, pin) # None
               /\ pin \in DOMAIN last_down =>
                      last_down[pin] = Value(LastAccepted(accepted, pin))

\* C5 witness: on one pin a press was accepted, a second inside the window
\* discarded, and a third, a full window after the first but less than a
\* window after the discarded one, accepted; meanwhile a press on another
\* pin inside that window was accepted.
C5_Witness ==
    \E p, q \in Pins :
        /\ p # q
        /\ Len(gpio_signals) = 4
        /\ gpio_signals[1] = Signal(p, "pressed", gpio_signals[1].at)
        /\ gpio_signals[2] = Signal(p, "pressed", gpio_signals[1].at + BounceTicks - 1)
        /\ gpio_signals[3] = Signal(q, "pressed", gpio_signals[2].at)
        /\ gpio_signals[4] = Signal(p, "pressed", gpio_signals[1].at + BounceTicks)
        /\ Len(OfKind(gpio_emitted, "down")) = 3
        /\ last_down[p] = gpio_signals[4].at

(***************************************************************************)
(* The fanout.                                                             *)
(***************************************************************************)
\* How often a connection was sent a message.
Count(messages, message) ==
    Cardinality({k \in DOMAIN messages : messages[k] = message})

\* How many of the first n ended broadcasts of a message had the connection
\* among their targets and did not fail on it.
Deliveries(ws, message, n) ==
    Cardinality({k \in 1 .. n : /\ finished[k].message = message
                                /\ ws \in finished[k].targets \ finished[k].dead})

\* A step of the broadcast that holds ws_lock (a send, or the end).
BroadcastStep == ws_lock # None /\ ws_lock' # ws_lock

FailureIsIsolated ==
    \A n \in DOMAIN finished :
        LET b == finished[n]
        IN  b.dead # {} =>
              /\ \A ws \in b.targets \ b.dead :
                     Count(received[ws], b.message) >= Deliveries(ws, b.message, n)
              /\ \A ws \in b.dead :
                     /\ ws \notin ws_clients
                     /\ \A later \in n + 1 .. Len(finished) : ws \notin finished[later].targets
                     /\ ws_lock # None => ws \notin Range(Value(ws_lock).order)
                     /\ evicted[ws] # None
                     /\ received[ws] = Value(evicted[ws])

\* C10: when delivery to a subscriber fails during a broadcast, every other
\* subscriber the broadcast visits still receives the message (as often as
\* broadcasts of it visited them), the failed subscriber is out of
\* ws_clients once the broadcast has ended, no later broadcast visits it and
\* it receives nothing more; and no step of a broadcast changes the pressed
\* set or the history.
C10_FailedSubscriberIsIsolated ==
    /\ []FailureIsIsolated
    /\ [][BroadcastStep => UNCHANGED <<pressed_pins, history_course_ids>>]_vars

\* C10 witness: a broadcast of a course selection visited three subscribers
\* and failed on one; the other two have the message, and the next broadcast
\* visited those two only and has ended as well.
C10_Witness ==
    /\ Len(finished) = 2
    /\ finished[1].message.type = "course_added"
    /\ finished[1].targets = Sockets
    /\ Cardinality(finished[1].dead) = 1
    /\ \A ws \in Sockets \ finished[1].dead : Count(received[ws], finished[1].message) = 1
    /\ finished[2].targets = Sockets \ finished[1].dead
    /\ finished[2].dead = {}
    /\ ws_clients = Sockets \ finished[1].dead
    /\ history_course_ids = <<"c1">>

(***************************************************************************)
(* Joining the fanout.                                                     *)
(***************************************************************************)
\* The notifications of a change, as opposed to hello and the snapshot.
Incremental == {"pressed_update", "course_added", "history_cleared", "courses_updated"}

\* C11: whatever a connection was sent, a notification of a change comes
\* after a state snapshot: no connection is sent pressed_update,
\* course_added, history_cleared or courses_updated before its snapshot.
C11_SnapshotBeforeNotifications ==
    \A ws \in Sockets :
        \A k \in DOMAIN received[ws] :
            received[ws][k].type \in Incremental =>
                \E j \in 1 .. k - 1 : received[ws][j].type = "state"

(***************************************************************************)
(* The audit log.                                                          *)
(***************************************************************************)
\* The sources an InputEvent names.
Sources == {"gpio", "arduino", "mock"}

\* The direction an audit entry's event_type stands for.
Direction(event_type) ==
    IF \E s \in Sources : event_type \in {"clear_down_" \o s, "button_down_" \o s}
    THEN "down"
    ELSE IF \E s \in Sources : event_type = "button_up_" \o s THEN "up"
    ELSE ""

\* The last n elements of a sequence (all of it when it is shorter).
LastN(seq, n) ==
    IF Len(seq) > n THEN SubSeq(seq, Len(seq) - n + 1, Len(seq)) ELSE seq

\* The events the tracker processed, in order.
EventsOf(tr) == SelectSeq(tr, LAMBDA e : e.op = "event")

\* C12: the audit log holds one entry per processed Down or Up event, with
\* the event's pin and direction, in the order of processing (the entries of
\* the last LogCap events once the log is full), and nothing else.
C12_OneEntryPerEventInOrder ==
    LET events == LastN(EventsOf(trace), LogCap)
    IN  /\ Len(presses_log) = Len(events)
        /\ \A k \in 1 .. Len(events) :
               /\ presses_log[k].pin = events[k].pin
               /\ Direction(presses_log[k].event_type) = events[k].kind

\* C12 witness: a Down then an Up on one pin have left exactly two entries,
\* the down entry then the up entry, both for that pin.
C12_Witness ==
    /\ Len(EventsOf(trace)) = 2
    /\ trace[1].op = "event" /\ trace[1].kind = "down"
    /\ trace[2].op = "event" /\ trace[2].kind = "up" /\ trace[2].pin = trace[1].pin
    /\ Len(presses_log) = 2
    /\ presses_log[1].pin = trace[1].pin /\ Direction(presses_log[1].event_type) = "down"
    /\ presses_log[2].pin = trace[1].pin /\ Direction(presses_log[2].event_type) = "up"

\* C13: the persisted log is the contiguous suffix of everything appended
\* that fits the cap: never more than LogCap entries, the entry just written
\* last, the retained entries in their order, and an entry gone only when
\* every older one is gone.
C13_LogIsSuffixOfAppended ==
    /\ Len(presses_log) <= LogCap
    /\ presses_log = LastN(appended, LogCap)
    /\ appended # <<>> => presses_log[Len(presses_log)] = appended[Len(appended)]

\* C13 witness: two calls past the cap, the log is full and holds all but
\* the two oldest entries, which differ from the entries that took their
\* places.
C13_Witness ==
    /\ Len(appended) = LogCap + 2
    /\ Len(presses_log) = LogCap
    /\ presses_log = SubSeq(appended, 3, LogCap + 2)
    /\ appended[1] # appended[3]
    /\ appended[2] # appended[4]

\* C14: every audit entry has exactly one of the actions clear_down,
\* button_down and button_up: clear_down without a course id for a Down on
\* the clear pin, button_down with the course id of the pin's course (none
\* when it has no course) for any other Down, button_up without a course id
\* for an Up.
C14_EntryHasOneOfThreeActions ==
    LET events == LastN(EventsOf(trace), LogCap)
    IN  \A k \in 1 .. Len(presses_log) :
            k <= Len(events) =>
                LET entry == presses_log[k]
                    event == events[k]
                IN  IF event.kind = "down" /\ event.pin = Value(clear_pin)
                    THEN entry.event_type = "clear_down" /\ entry.course_id = None
                    ELSE IF event.kind = "down"
                    THEN entry.event_type = "button_down" /\ entry.course_id = event.course
                    ELSE entry.event_type = "button_up" /\ entry.course_id = None

\* The event types of a clear entry, with or without the source.
ClearDownTypes == {"clear_down"} \cup {"clear_down_" \o s : s \in Sources}

\* The step emptied the history, issued history_cleared and appended a
\* clear entry to the audit log.
ClearedByLast ==
    /\ history_course_ids = <<>>
    /\ HistoryCleared \in Range(IssuedByLast)
    /\ \E pin \in Pins \cup {-1}, event_type \in ClearDownTypes :
           presses_log = log_press(Value(last.pre).presses_log, pin, None, event_type)

\* C15: a clear request (POST /api/clear) and a Down on the clear pin have
\* the same effects: each leaves the history empty, issues history_cleared
\* and appends a clear_down entry to the audit log.
C15_ClearRequestEquivalentToClearPin ==
    (last.op = "clear" \/ (LastOnClearPin /\ last.kind = "down")) => ClearedByLast

(***************************************************************************)
(* The tracker called from threads.                                        *)
(***************************************************************************)
\* The tracker before any event.
EmptyTracker ==
    [pressed_pins |-> {}, history_course_ids |-> <<>>, presses_log |-> <<>>,
     tasks |-> <<>>, issued |-> <<>>, trace |-> <<>>]

\* The tracker after the first n of the events, taken one after another.
RECURSIVE Sequential(_, _)
Sequential(events, n) ==
    IF n = 0 THEN EmptyTracker
    ELSE on_input_event(Sequential(events, n - 1), events[n])

\* The events of the trace, as they were handed to on_input_event.
CalledWith(tr) ==
    [k \in DOMAIN EventsOf(tr) |->
        InputEvent(EventsOf(tr)[k].pin, EventsOf(tr)[k].kind, EventsOf(tr)[k].source)]

NoCallRunning == \A t \in Contexts : contexts[t].pc = "idle"

\* C16: when the calls of on_input_event from different threads have all
\* returned, pressed_pins, the history and the audit log are what some
\* sequential order of the events gives; so the log has an entry for every
\* event.
C16_ConcurrentCallsAreSerialized ==
    (input_manager # None /\ NoCallRunning) =>
        LET events == CalledWith(trace)
            n == Len(events)
        IN  /\ Len(presses_log) = Len(LastN(events, LogCap))
            /\ \E order \in Orders(1 .. n) :
                   LET m == Sequential([k \in 1 .. n |-> events[order[k]]], n)
                   IN  /\ m.pressed_pins = pressed_pins
                       /\ m.history_course_ids = history_course_ids
                       /\ m.presses_log = presses_log

(***************************************************************************)
(* Suspended deliveries.                                                   *)
(*                                                                         *)
(* While a broadcast holds ws_lock with sockets still to visit, it is      *)
(* suspended in "await ws.send_json(message)" for the first of them: that  *)
(* delivery is pending until the step Send.                                *)
(***************************************************************************)
\* The running broadcast delivers its message to the socket now.
DeliverTo(ws) == Send /\ Len(received'[ws]) > Len(received[ws])

\* C17: while the delivery of a notification to one subscriber is pending,
\* the delivery of the same notification to every other subscriber that the
\* broadcast has not served yet (and whose connection is open) can complete.
C17_PendingDeliveryDelaysNobody ==
    ws_lock # None =>
        LET b == Value(ws_lock)
        IN  \A k \in 2 .. Len(b.todo) :
                b.todo[k] \notin ws_closed => ENABLED DeliverTo(b.todo[k])


(***************************************************************************)
(* start() and stop() of the edge sources.                                 *)
(***************************************************************************)
\* C18: after any sequence of start() and stop() calls on one edge source at
\* most one of its read loops is active.
C18_AtMostOneReadLoopPerSource ==
    \A m \in Managers : Cardinality(Alive(m)) <= 1

\* C19: every read loop that was alive when stop() was called on its source
\* eventually leaves its while, with no line arriving and also when a
\* start() follows the stop().
C19_StoppedLoopEventuallyExits ==
    \A m \in Managers : \A i \in 1 .. MaxLoops :
        [](i \in owed[m] => <>(i \notin Alive(m)))

\* C20: no line that arrives while the source is stopped (stop() has
\* returned and start() was not called since) is handed to the callback.
C20_NoEventAfterStop ==
    \A k \in 1 .. Len(lines) : ~lines[k].stopped


(***************************************************************************)
(* From the edge source to the tracker.                                    *)
(***************************************************************************)
\* C21: the events the tracker processed are the events the GPIO source
\* handed to its callback, each one once and in the order of emission.
C21_EmittedEventsProcessedOnceInOrder ==
    LET processed == EventsOf(trace)
    IN  /\ Len(processed) = Len(gpio_emitted)
        /\ \A k \in 1 .. Len(processed) :
              /\ processed[k].pin = gpio_emitted[k].gpio_pin
              /\ processed[k].kind = gpio_emitted[k].kind


(***************************************************************************)
(* Read errors.                                                            *)
(***************************************************************************)
\* C22: a read loop whose readline() raised does not read again before it
\* has backed off, and the failure neither ends the loop nor changes the
\* press state.
C22_FailedReadBacksOffAndRetries ==
    /\ [](\A m \in Managers : \A i \in 1 .. Len(loops[m]) :
             <<m, i>> \in failed => loops[m][i].pc # "reading")
    /\ [][\A m \in Managers : \A i \in 1 .. Len(loops[m]) :
             <<m, i>> \in failed' \ failed =>
                 /\ loops'[m][i].pc # "done"
                 /\ UNCHANGED <<pressed_pins, history_course_ids>>]_vars


(***************************************************************************)
(* The GPIO source without gpiozero.                                       *)
(***************************************************************************)
\* C23: when gpiozero cannot be imported, start() returns (startup goes on
\* and the input manager exists), no pin has a handler, no event is handed
\* to the callback or processed by the tracker, and stop() changes nothing.
C23_NoGpiozeroNoEvents ==
    ~gpiozero =>
        /\ last.op = "startup" => input_manager # None
        /\ buttons = {}
        /\ gpio_emitted = <<>>
        /\ EventsOf(trace) = <<>>
        /\ pressed_pins = {} /\ history_course_ids = <<>> /\ presses_log = <<>>
        /\ last.op = "stop" =>
              /\ Value(last.pre).pressed_pins = pressed_pins
              /\ Value(last.pre).history_course_ids = history_course_ids
              /\ Value(last.pre).trace = trace

\* Startup without gpiozero, time has passed and stop() was called.
C23_Witness ==
    /\ ~gpiozero
    /\ input_manager # None
    /\ last.op = "stop"
    /\ now > BounceTicks


(***************************************************************************)
(* Startup without the pin-mapping file.                                   *)
(***************************************************************************)
\* C24: when data/gpio_map.json is missing the input layer is never started:
\* no input manager and no edge source exists, and no event is processed.
C24_NoMappingFileNoInputLayer ==
    gpio_map_file = None =>
        /\ input_manager = None
        /\ buttons = {}
        /\ ~arduino_running
        /\ EventsOf(trace) = <<>>


(***************************************************************************)
(* The keyboard source.                                                    *)
(***************************************************************************)
\* The clear key of the arguments is typed: "\n" for "enter", else the key
\* itself.
IsClearKey(args, key) ==
    IF lower(args.clear_key) = <<"e", "n", "t", "e", "r">> THEN key = "\n"
    ELSE lower(args.clear_key) = lower(<<key>>)

\* The pin a key is mapped to (None: the key is not mapped).
MappedPin(args, key) ==
    LET hits == {x \in DOMAIN args.key_to_pin : lower(<<x>>) = lower(<<key>>)}
    IN  IF hits = {} THEN None ELSE Some(args.key_to_pin[CHOOSE x \in hits : TRUE])

\* The Down-then-Up pairs owed for the first n keys: one pair for the clear
\* pin per press of the clear key, one pair for its pin per press of a
\* mapped key, for the keys typed since the source was started.
RECURSIVE ExpectedKeyEvents(_, _, _)
ExpectedKeyEvents(args, keys, n) ==
    IF n = 0 THEN <<>>
    ELSE LET before == ExpectedKeyEvents(args, keys, n - 1)
             key == keys[n].key
             Pair(p) == <<[gpio_pin |-> p, kind |-> "down"], [gpio_pin |-> p, kind |-> "up"]>>
         IN  IF ~keys[n].started THEN before
             ELSE IF IsClearKey(args, key) THEN before \o Pair(Value(clear_pin))
             ELSE IF MappedPin(args, key) # None THEN before \o Pair(Value(MappedPin(args, key)))
             ELSE before

\* C25: the events the keyboard source handed to its callback are a Down
\* then an Up for the mapped pin per press of a mapped key, and a Down then
\* an Up for the configured clear pin per press of the clear key.
C25_KeyPressEmitsDownThenUp ==
    keyboard_called =>
        [k \in 1 .. Len(key_emitted) |->
            [gpio_pin |-> key_emitted[k].gpio_pin, kind |-> key_emitted[k].kind]]
          = ExpectedKeyEvents(Value(keyboard_args), typed, Len(typed))


(***************************************************************************)
(* Course changes between events.                                          *)
(***************************************************************************)
\* C26: after startup the lookup table is the one the courses file gives, so
\* the Down just processed on a pin other than the clear pin appended the
\* course the file maps to the pin now and issued its course_added, or
\* appended and issued nothing for a pin without a course; and the Up just
\* processed removed its pin from pressed_pins whatever happened to the
\* course of the pin.
C26_LookupFollowsCourseChanges ==
    /\ input_manager # None => course_by_pin = get_courses_by_pin(courses_file)
    /\ LastIsEvent /\ last.kind = "down" /\ ~LastOnClearPin =>
          LET current == get_courses_by_pin(courses_file)
              pre == Value(last.pre)
          IN  IF last.pin \in DOMAIN current
              THEN /\ history_course_ids =
                          Append(pre.history_course_ids, current[last.pin].course_id)
                   /\ IssuedByLast = <<CourseAdded(current[last.pin]),
                                       PressedUpdate(pressed_pins)>>
              ELSE /\ history_course_ids = pre.history_course_ids
                   /\ IssuedByLast = <<PressedUpdate(pressed_pins)>>
    /\ LastIsEvent /\ last.kind = "up" => last.pin \notin pressed_pins

\* C26 witness: a Down added the course of a pin, an admin request took the
\* course off the pin while the button was held, and the Up was processed.
C26_Witness ==
    /\ Len(trace) = 3
    /\ trace[1].op = "event" /\ trace[1].kind = "down" /\ trace[1].course # None
    /\ trace[2].op = "admin"
    /\ trace[3].op = "event" /\ trace[3].kind = "up" /\ trace[3].pin = trace[1].pin
    /\ trace[3].course = None
    /\ LastIsEvent /\ last.kind = "up"
    /\ trace[1].pin \notin pressed_pins

\* C26 witness, the other way: a Down on a pin without a course, an admin
\* request that assigns a course to the pin, and a Down that appended it.
C26_WitnessAssigned ==
    /\ Len(trace) = 3
    /\ trace[1].op = "event" /\ trace[1].kind = "down" /\ trace[1].course = None
    /\ trace[2].op = "admin"
    /\ trace[3].op = "event" /\ trace[3].kind = "down" /\ trace[3].pin = trace[1].pin
    /\ trace[3].course # None
    /\ history_course_ids = <<Value(trace[3].course)>>


(***************************************************************************)
(* The mapping of the serial backend.                                      *)
(***************************************************************************)
\* The mapping a configuration asks for: its i-th course input goes to the
\* i-th smallest course pin, its clear input to the clear pin.
ExpectedMapping(config, pins, clear) ==
    LET n == IF Len(config.course_inputs) < Cardinality(pins)
             THEN Len(config.course_inputs) ELSE Cardinality(pins)
        courses == [x \in {config.course_inputs[i] : i \in 1 .. n} |->
                       sorted(pins)[CHOOSE i \in 1 .. n : config.course_inputs[i] = x]]
    IN  IF config.clear_input = None THEN courses
        ELSE Put(courses, Value(config.clear_input), clear)

\* C27: while the serial backend runs, the mapping from serial inputs to
\* pins is exactly the one its current configuration asks for, clear pin 0
\* included, with no entry of an earlier configuration.
C27_MappingIsThatOfCurrentConfig ==
    arduino_running =>
        arduino_to_gpio_map =
            ExpectedMapping(Value(input_manager).arduino_config, course_pins,
                            Value(clear_pin))


\* The notifications of changes a connection was sent, in order.
Notifications(ws) == SelectSeq(received[ws], LAMBDA x : x.type \in Incremental)

\* The pressed_update notifications a connection was sent, in order.
PressedUpdates(ws) == SelectSeq(received[ws], LAMBDA x : x.type = "pressed_update")

\* s is t[i+1 .. i+Len(s)] for some i.
IsSegment(s, t) ==
    \E i \in 0 .. Len(t) - Len(s) : SubSeq(t, i + 1, i + Len(s)) = s

IsSuffix(s, t) ==
    Len(s) <= Len(t) /\ SubSeq(t, Len(t) - Len(s) + 1, Len(t)) = s

\* A subscriber that is connected: its socket is in ws_clients and its peer
\* has not gone away.
Connected(ws) == ws \in ws_clients /\ ws \notin ws_closed

\* No delivery is pending: no task waits to start, no broadcast waits for
\* ws_lock or holds it.
NoPendingDelivery ==
    /\ tasks = <<>>
    /\ ws_lock = None
    /\ \A k \in DOMAIN lock_waiters : lock_waiters[k].kind # "broadcast"

\* What one processed event adds to the notifications issued: nothing but
\* course_added or history_cleared, then one pressed_update with the pressed
\* set after the transition.
IssuesOnePressedUpdate ==
    /\ Len(issued') > Len(issued)
    /\ SubSeq(issued', 1, Len(issued)) = issued
    /\ issued'[Len(issued')] = PressedUpdate(pressed_pins')
    /\ \A k \in Len(issued) + 1 .. Len(issued') - 1 :
           issued'[k].type \in {"course_added", "history_cleared"}
    /\ Len(issued') - Len(issued) <= 2

====
